---- MODULE Spec2Model ----
(***************************************************************************)
(* Model of the verification engine and the prerequisite gate of the       *)
(* Phase 1 pipeline (phases/01_LegacyDB/src/db_verification.py), of its    *)
(* benchmark harness (profiling_modules/metrics_performance.py) and of the *)
(* comparative statistics (04_run_comparison.py).                          *)
(*                                                                         *)
(* The PostgreSQL server, the file system and the configuration are the    *)
(* environment: they are drawn in Init and only read by the operations.    *)
(* Every operation is one call of a function of these files; its           *)
(* outcome (normal return or propagated exception, the returned value and  *)
(* the trace of engine / connection / logging events) is stored in ret.    *)
(***************************************************************************)
EXTENDS Integers, Sequences, FiniteSets, TLC

VARIABLES
    cfg,                \* configuration object: source_db, legacy_dbs, benchmark_dbs
    createEngineFails,  \* create_engine raises (driver missing, malformed URL)
    rootFail,           \* step of the catalog lookup on the root database that fails
    catalog,            \* database names listed in pg_database
    connectable,        \* databases that accept a connection
    schemaFail,         \* step of the schema check that fails at connection level
    schemaName,         \* name of the user schema of the inspected database ("none": no schema)
    tables,             \* base tables of that schema, ordered by name
    bench,              \* state of the benchmark database behind the inspected engine
    fs,                 \* metrics output directory
    harness,            \* benchmark run: query file, its lines, the connection, what each query does
    pool,               \* all_data of the comparison: per database its flag and its benchmark results
    profiling,          \* profiling run: the metric steps that raise, the query file of each database
    site,               \* installation: per database its schema or benchmark table, the output directories
    effects,            \* what the dump files, psql, DROP DATABASE and the ETL queries do when run
    call,               \* last operation called and its arguments
    ret,                \* its outcome
    repeat              \* the last call repeated the call before it (same operation, same arguments)

envVars == <<cfg, createEngineFails, rootFail, catalog, connectable,
             schemaFail, schemaName, tables, bench, fs, harness, pool, profiling, site,
             effects>>
vars == <<cfg, createEngineFails, rootFail, catalog, connectable,
          schemaFail, schemaName, tables, bench, fs, harness, pool, profiling, site,
          effects, call, ret, repeat>>

----------------------------------------------------------------------------
(* Bounds of the enumerated environment *)

MaxFreeTables == 2
MaxRows == 1
PadTables == 13

----------------------------------------------------------------------------
(* Outcomes of a call *)

Ev(e, o) == [ev |-> e, on |-> o]

Return(v, t) == [exc |-> "none", val |-> v, trace |-> t]

Raise(e, t) == [exc |-> e, val |-> "n/a", trace |-> t]

NoStats == << >>

\* variant: no except clause, the error leaves the function
CatchSQLAlchemyError_missing(body, fallback) == body

(* "except SQLAlchemyError as e: logging.error(...); return <fallback>" *)
CatchSQLAlchemyError(body, fallback) ==
    IF body.exc = "SQLAlchemyError"
    THEN Return(fallback, Append(body.trace, Ev("log", "error")))
    ELSE body

----------------------------------------------------------------------------
(* verify_database_exists *)

\* variant: the catalog entry alone decides, no test connection
TestConnection_skipped(db_name, looked) == Return(TRUE, Append(looked, Ev("log", "info")))

\* "if exists:" branch: the test connection to the database itself
TestConnection(db_name, looked) ==
    IF createEngineFails
    THEN Raise("Exception", Append(looked, Ev("create_engine_failed", db_name)))
    ELSE IF db_name \notin connectable
    THEN Raise("SQLAlchemyError",
               looked \o << Ev("create_engine", db_name), Ev("connect_failed", db_name) >>)
    ELSE Return(TRUE,
                looked \o << Ev("create_engine", db_name), Ev("connect", db_name),
                             Ev("close", db_name), Ev("dispose", db_name),
                             Ev("log", "info") >>)

verify_database_exists(db_name) ==
    LET opened == << Ev("connect", "root") >>
        looked == << Ev("connect", "root"), Ev("execute", "pg_database"), Ev("close", "root") >>
        body ==
            IF rootFail = "connect"
            THEN Raise("SQLAlchemyError", << Ev("connect_failed", "root") >>)
            ELSE IF rootFail = "execute"
            THEN Raise("SQLAlchemyError",
                       opened \o << Ev("execute_failed", "pg_database"), Ev("close", "root") >>)
            ELSE IF db_name \in catalog
            THEN TestConnection(db_name, looked)
            ELSE Return(FALSE, Append(looked, Ev("log", "warning")))
    IN  CatchSQLAlchemyError(body, FALSE)

----------------------------------------------------------------------------
(* verify_schema_populated *)

RECURSIVE CountRows_abort(_, _, _, _, _)
\* variant: the scan stops at the first table whose count query fails
CountRows_abort(tabs, i, table_stats, total_rows, events) ==
    IF i > Len(tabs)
    THEN [table_stats |-> table_stats, total_rows |-> total_rows, events |-> events]
    ELSE IF tabs[i].readable
         THEN CountRows_abort(tabs, i + 1, Append(table_stats, tabs[i].rows),
                              total_rows + tabs[i].rows,
                              Append(events, Ev("count", i)))
         ELSE [table_stats |-> Append(table_stats, -1), total_rows |-> total_rows,
               events |-> events \o << Ev("count_failed", i), Ev("log", "warning") >>]

RECURSIVE CountRows(_, _, _, _, _)
\* the "for table in tables" loop: one row count query per table, -1 on failure
CountRows(tabs, i, table_stats, total_rows, events) ==
    IF i > Len(tabs)
    THEN [table_stats |-> table_stats, total_rows |-> total_rows, events |-> events]
    ELSE IF tabs[i].readable
         THEN CountRows(tabs, i + 1, Append(table_stats, tabs[i].rows),
                        total_rows + tabs[i].rows,
                        Append(events, Ev("count", i)))
         ELSE CountRows(tabs, i + 1, Append(table_stats, -1), total_rows,
                        events \o << Ev("count_failed", i), Ev("log", "warning") >>)

\* variant: the sentinel test of is_populated is left out
AllNonNegative_unchecked(table_stats) == TRUE

AllNonNegative(table_stats) == \A i \in 1..Len(table_stats) : table_stats[i] >= 0

\* the body of verify_schema_populated, run on the engine of a database in
\* state db: db.name its user schema, db.tables its base tables, db.fail the
\* step that fails at connection level
PopulatedOn(db, schema_name, min_tables) ==
    LET opened == << Ev("connect", "schema_db") >>
        body ==
            IF db.fail = "connect"
            THEN Raise("SQLAlchemyError", << Ev("connect_failed", "schema_db") >>)
            ELSE IF db.fail = "schema_check"
            THEN Raise("SQLAlchemyError",
                       opened \o << Ev("execute_failed", "schemata"), Ev("close", "schema_db") >>)
            ELSE IF db.name # schema_name
            THEN Return([passed |-> FALSE, table_stats |-> NoStats],
                        opened \o << Ev("execute", "schemata"), Ev("log", "error"),
                                     Ev("close", "schema_db") >>)
            ELSE IF db.fail = "tables_query"
            THEN Raise("SQLAlchemyError",
                       opened \o << Ev("execute", "schemata"), Ev("execute_failed", "tables"),
                                    Ev("close", "schema_db") >>)
            ELSE IF Len(db.tables) < min_tables
            THEN Return([passed |-> FALSE, table_stats |-> NoStats],
                        opened \o << Ev("execute", "schemata"), Ev("execute", "tables"),
                                     Ev("log", "error"), Ev("close", "schema_db") >>)
            ELSE LET counted == CountRows(db.tables, 1, << >>, 0, << >>)
                     is_populated == /\ Len(db.tables) >= min_tables
                                     /\ counted.total_rows > 0
                                     /\ AllNonNegative(counted.table_stats)
                 IN  Return([passed |-> is_populated, table_stats |-> counted.table_stats],
                            opened \o << Ev("execute", "schemata"), Ev("execute", "tables") >>
                                   \o counted.events
                                   \o << Ev("log", IF is_populated THEN "info" ELSE "error"),
                                         Ev("close", "schema_db") >>)
    IN  CatchSQLAlchemyError(body, [passed |-> FALSE, table_stats |-> NoStats])

\* called on the engine of the inspected database
verify_schema_populated(schema_name, min_tables) ==
    PopulatedOn([fail |-> schemaFail, name |-> schemaName, tables |-> tables],
                schema_name, min_tables)

----------------------------------------------------------------------------
(* verify_benchmark_database_ready *)

MinIndexes == 5

\* variant: missing statistics fail the check
StatisticsCheck_strict(b, sofar) ==
    IF b.stats \in {"analyzed", "autoanalyzed"}
    THEN Return(TRUE, sofar \o << Ev("execute", "stats"), Ev("log", "info"),
                                  Ev("close", "bench_db") >>)
    ELSE Return(FALSE, sofar \o << Ev("execute", "stats"), Ev("log", "warning_statistics"),
                                   Ev("close", "bench_db") >>)

\* "if stats_result and (stats_result[0] or stats_result[1])": advisory only
StatisticsCheck(b, sofar) ==
    IF b.stats \in {"analyzed", "autoanalyzed"}
    THEN Return(TRUE, sofar \o << Ev("execute", "stats"), Ev("log", "info"),
                                  Ev("close", "bench_db") >>)
    ELSE Return(TRUE, sofar \o << Ev("execute", "stats"), Ev("log", "warning_statistics"),
                                  Ev("close", "bench_db") >>)

\* the body of verify_benchmark_database_ready, run on the engine of a
\* benchmark database in state b
ReadyOn(b) ==
    LET opened == << Ev("connect", "bench_db") >>
        closed == << Ev("close", "bench_db") >>
        body ==
            IF b.fail = "connect"
            THEN Raise("SQLAlchemyError", << Ev("connect_failed", "bench_db") >>)
            ELSE IF b.fail = "table_check"
            THEN Raise("SQLAlchemyError",
                       opened \o << Ev("execute_failed", "table_check") >> \o closed)
            ELSE IF ~b.table_exists
            THEN Return(FALSE,
                        opened \o << Ev("execute", "table_check"), Ev("log", "error") >> \o closed)
            ELSE IF b.fail = "count"
            THEN Raise("SQLAlchemyError",
                       opened \o << Ev("execute", "table_check"),
                                    Ev("execute_failed", "count") >> \o closed)
            ELSE IF b.row_count = 0
            THEN Return(FALSE,
                        opened \o << Ev("execute", "table_check"), Ev("execute", "count"),
                                     Ev("log", "error") >> \o closed)
            ELSE IF b.fail = "index"
            THEN Raise("SQLAlchemyError",
                       opened \o << Ev("execute", "table_check"), Ev("execute", "count"),
                                    Ev("execute_failed", "index") >> \o closed)
            ELSE LET few == IF b.index_count < MinIndexes
                            THEN << Ev("log", "warning_few_indexes") >> ELSE << >>
                     sofar == opened \o << Ev("execute", "table_check"), Ev("execute", "count"),
                                           Ev("execute", "index") >> \o few
                 IN  IF b.fail = "stats"
                     THEN Raise("SQLAlchemyError",
                                sofar \o << Ev("execute_failed", "stats") >> \o closed)
                     ELSE StatisticsCheck(b, sofar)
    IN  CatchSQLAlchemyError(body, FALSE)

\* called on the engine of the inspected benchmark database
verify_benchmark_database_ready == ReadyOn(bench)

----------------------------------------------------------------------------
(* check_pipeline_prerequisites *)

MinSourceTables == 15

\* str.lower() on the database names of the model
Lower(name) == IF name = "TMP_DF9" THEN "tmp_df9" ELSE name

Err(msg, about) == [msg |-> msg, about |-> about]

Checked(errors, trace, exc) == [errors |-> errors, trace |-> trace, exc |-> exc]

\* variant: min_tables left at its default
SourceSchemaCheck_default(schema_name) == verify_schema_populated(schema_name, 1)

\* "verify_schema_populated(source_engine, schema_name, min_tables=15)"
SourceSchemaCheck(schema_name) == verify_schema_populated(schema_name, MinSourceTables)

\* branch "01_create_benchmark_dbs.py"
CheckSource ==
    LET r == verify_database_exists(cfg.source_db)
    IN  IF r.exc # "none"
        THEN Checked(<< >>, r.trace, r.exc)
        ELSE IF ~r.val
        THEN Checked(<< Err("Source database does not exist or is not accessible",
                            cfg.source_db) >>,
                     r.trace, "none")
        ELSE IF createEngineFails
        THEN Checked(<< >>, Append(r.trace, Ev("create_engine_failed", cfg.source_db)),
                     "Exception")
        ELSE LET schema_name == Lower(cfg.source_db)
                 s == SourceSchemaCheck(schema_name)
                 t == Append(r.trace, Ev("create_engine", cfg.source_db)) \o s.trace
             IN  IF s.exc # "none"
                 THEN Checked(<< >>, t, s.exc)
                 ELSE Checked(IF ~s.val.passed
                              THEN << Err("Source schema is not properly populated",
                                          schema_name) >>
                              ELSE << >>,
                              Append(t, Ev("dispose", cfg.source_db)), "none")

RECURSIVE CheckAllExist_prepend(_, _, _, _)
\* variant: a new error is put in front of the list
CheckAllExist_prepend(all_dbs, i, errors, trace) ==
    IF i > Len(all_dbs)
    THEN Checked(errors, trace, "none")
    ELSE LET r == verify_database_exists(all_dbs[i])
         IN  IF r.exc # "none"
             THEN Checked(errors, trace \o r.trace, r.exc)
             ELSE CheckAllExist_prepend(all_dbs, i + 1,
                     IF r.val THEN errors
                     ELSE << Err("Database does not exist", all_dbs[i]) >> \o errors,
                     trace \o r.trace)

RECURSIVE CheckAllExist_break(_, _, _, _)
\* variant: the loop stops at the first missing database
CheckAllExist_break(all_dbs, i, errors, trace) ==
    IF i > Len(all_dbs)
    THEN Checked(errors, trace, "none")
    ELSE LET r == verify_database_exists(all_dbs[i])
         IN  IF r.exc # "none"
             THEN Checked(errors, trace \o r.trace, r.exc)
             ELSE IF r.val
             THEN CheckAllExist_break(all_dbs, i + 1, errors, trace \o r.trace)
             ELSE Checked(Append(errors, Err("Database does not exist", all_dbs[i])),
                          trace \o r.trace, "none")

RECURSIVE CheckAllExist(_, _, _, _)
\* branches "02_run_profiling_pipeline.py" and "03_generate_erds.py"
CheckAllExist(all_dbs, i, errors, trace) ==
    IF i > Len(all_dbs)
    THEN Checked(errors, trace, "none")
    ELSE LET r == verify_database_exists(all_dbs[i])
         IN  IF r.exc # "none"
             THEN Checked(errors, trace \o r.trace, r.exc)
             ELSE CheckAllExist(all_dbs, i + 1,
                                IF r.val THEN errors
                                ELSE Append(errors, Err("Database does not exist", all_dbs[i])),
                                trace \o r.trace)

\* variant: the directory alone is enough, its content is not looked at
CheckMetricFiles_dirOnly ==
    IF fs.fail
    THEN Checked(<< >>, << Ev("fs_failed", "metrics") >>, "Exception")
    ELSE IF ~fs.dir_exists
    THEN Checked(<< Err("Metrics directory does not exist", "metrics") >>,
                 << Ev("exists", "metrics") >>, "none")
    ELSE Checked(<< >>, << Ev("exists", "metrics") >>, "none")

\* branch "04_run_comparison.py"
CheckMetricFiles ==
    IF fs.fail
    THEN Checked(<< >>, << Ev("fs_failed", "metrics") >>, "Exception")
    ELSE IF ~fs.dir_exists
    THEN Checked(<< Err("Metrics directory does not exist", "metrics") >>,
                 << Ev("exists", "metrics") >>, "none")
    ELSE IF fs.csv + fs.json = 0
    THEN Checked(<< Err("No metric files found", "metrics") >>,
                 << Ev("exists", "metrics"), Ev("glob", "csv"), Ev("glob", "json") >>, "none")
    ELSE Checked(<< >>,
                 << Ev("exists", "metrics"), Ev("glob", "csv"), Ev("glob", "json") >>, "none")

\* variant: the last branch is an else, taken by every other name
Dispatch_else(script_name) ==
    IF script_name = "01_create_benchmark_dbs.py"
    THEN CheckSource
    ELSE IF script_name = "02_run_profiling_pipeline.py"
    THEN CheckAllExist(cfg.legacy_dbs \o cfg.benchmark_dbs, 1, << >>, << >>)
    ELSE IF script_name = "03_generate_erds.py"
    THEN CheckAllExist(cfg.legacy_dbs \o cfg.benchmark_dbs, 1, << >>, << >>)
    ELSE CheckMetricFiles

\* the if / elif chain on script_name; no else branch
Dispatch(script_name) ==
    IF script_name = "01_create_benchmark_dbs.py"
    THEN CheckSource
    ELSE IF script_name = "02_run_profiling_pipeline.py"
    THEN CheckAllExist(cfg.legacy_dbs \o cfg.benchmark_dbs, 1, << >>, << >>)
    ELSE IF script_name = "03_generate_erds.py"
    THEN CheckAllExist(cfg.legacy_dbs \o cfg.benchmark_dbs, 1, << >>, << >>)
    ELSE IF script_name = "04_run_comparison.py"
    THEN CheckMetricFiles
    ELSE Checked(<< >>, << >>, "none")

\* variant: no except clause, the exception leaves the function
Report_unhandled(body) ==
    IF body.exc # "none"
    THEN Raise(body.exc, body.trace)
    ELSE Return([met |-> Len(body.errors) = 0, errors |-> body.errors],
                Append(body.trace,
                       Ev("log", IF Len(body.errors) = 0 THEN "info" ELSE "error")))

\* variant: prerequisites_met is computed before the except clause runs
Report_early(body) ==
    LET errors == IF body.exc # "none"
                  THEN Append(body.errors, Err("Failed to check prerequisites", body.exc))
                  ELSE body.errors
        prerequisites_met == Len(body.errors) = 0
    IN  Return([met |-> prerequisites_met, errors |-> errors],
               Append(body.trace, Ev("log", IF prerequisites_met THEN "info" ELSE "error")))

\* "except Exception as e: errors.append(...)", then the returned pair
Report(body) ==
    LET errors == IF body.exc # "none"
                  THEN Append(body.errors, Err("Failed to check prerequisites", body.exc))
                  ELSE body.errors
        prerequisites_met == Len(errors) = 0
    IN  Return([met |-> prerequisites_met, errors |-> errors],
               Append(body.trace, Ev("log", IF prerequisites_met THEN "info" ELSE "error")))

check_pipeline_prerequisites(script_name) ==
    LET body ==
            IF createEngineFails
            THEN Checked(<< >>, << Ev("create_engine_failed", "root") >>, "Exception")
            ELSE LET made == << Ev("create_engine", "root") >>
                     b == Dispatch(script_name)
                 IN  IF b.exc # "none"
                     THEN Checked(b.errors, made \o b.trace, b.exc)
                     ELSE Checked(b.errors, made \o b.trace \o << Ev("dispose", "root") >>,
                                  "none")
    IN  Report(body)

----------------------------------------------------------------------------
(* verify_full_pipeline_state                                              *)
(*                                                                         *)
(* The returned dict is the sequence of its items in insertion order.      *)
(* site.schemas[db] is the state of the legacy database db, site.benches   *)
(* that of a benchmark database, site.dirs the three output directories.   *)

MinLegacyTables == 5

MinMetricFiles == 10

Item(stage, ready) == [stage |-> stage, ready |-> ready]

Ready(ready, trace, exc) == [ready |-> ready, trace |-> trace, exc |-> exc]

RECURSIVE LegacyReady_last(_, _, _, _)
\* variant: no break, every database overwrites legacy_ready
LegacyReady_last(dbs, i, ready, trace) ==
    IF i > Len(dbs)
    THEN Ready(ready, trace, "none")
    ELSE LET r == verify_database_exists(dbs[i])
         IN  IF r.exc # "none"
             THEN Ready(FALSE, trace \o r.trace, r.exc)
             ELSE IF ~r.val
             THEN LegacyReady_last(dbs, i + 1, FALSE, trace \o r.trace)
             ELSE LET s == PopulatedOn(site.schemas[dbs[i]], Lower(dbs[i]), MinLegacyTables)
                      t == trace \o r.trace \o << Ev("create_engine", dbs[i]) >> \o s.trace
                  IN  IF s.exc # "none"
                      THEN Ready(FALSE, t, s.exc)
                      ELSE LegacyReady_last(dbs, i + 1, s.val.passed,
                                            Append(t, Ev("dispose", dbs[i])))

RECURSIVE LegacyReady(_, _, _, _)
\* Stage 0: "for db_name in cfg.legacy_dbs", left at the first database
\* that does not exist or whose schema is not populated
LegacyReady(dbs, i, ready, trace) ==
    IF i > Len(dbs)
    THEN Ready(ready, trace, "none")
    ELSE LET r == verify_database_exists(dbs[i])
         IN  IF r.exc # "none"
             THEN Ready(FALSE, trace \o r.trace, r.exc)
             ELSE IF ~r.val
             THEN Ready(FALSE, trace \o r.trace, "none")
             ELSE LET s == PopulatedOn(site.schemas[dbs[i]], Lower(dbs[i]), MinLegacyTables)
                      t == trace \o r.trace \o << Ev("create_engine", dbs[i]) >> \o s.trace
                  IN  IF s.exc # "none"
                      THEN Ready(FALSE, t, s.exc)
                      ELSE IF ~s.val.passed
                      THEN Ready(FALSE, Append(t, Ev("dispose", dbs[i])), "none")
                      ELSE LegacyReady(dbs, i + 1, ready, Append(t, Ev("dispose", dbs[i])))

RECURSIVE BenchmarkReady(_, _, _, _)
\* Stage 1: "for db_name in cfg.benchmark_dbs", the engine disposed of on
\* both branches
BenchmarkReady(dbs, i, ready, trace) ==
    IF i > Len(dbs)
    THEN Ready(ready, trace, "none")
    ELSE LET r == verify_database_exists(dbs[i])
         IN  IF r.exc # "none"
             THEN Ready(FALSE, trace \o r.trace, r.exc)
             ELSE IF ~r.val
             THEN Ready(FALSE, trace \o r.trace, "none")
             ELSE LET s == ReadyOn(site.benches[dbs[i]])
                      t == trace \o r.trace \o << Ev("create_engine", dbs[i]) >> \o s.trace
                  IN  IF s.exc # "none"
                      THEN Ready(FALSE, t, s.exc)
                      ELSE IF ~s.val
                      THEN Ready(FALSE, Append(t, Ev("dispose", dbs[i])), "none")
                      ELSE BenchmarkReady(dbs, i + 1, ready, Append(t, Ev("dispose", dbs[i])))

\* "<dir>.exists() and len(<the globbed files>) > least"; exists() and glob
\* raise on a directory that may not be read
DirReady(dir, files, least, trace) ==
    IF site.dirs[dir].fail
    THEN Ready(FALSE, Append(trace, Ev("fs_failed", dir)), "Exception")
    ELSE IF ~site.dirs[dir].exists
    THEN Ready(FALSE, Append(trace, Ev("exists", dir)), "none")
    ELSE Ready(files > least, trace \o << Ev("exists", dir), Ev("glob", dir) >>, "none")

\* the keys of state, in the order of their assignments
StageKeys ==
    << "00_setup_databases", "01_create_benchmark_dbs", "02_run_profiling_pipeline",
       "03_generate_erds", "04_run_comparison" >>

\* "Stage 0" to "Stage 4": what is assigned to state[StageKeys[i]]
StageReady(i, trace) ==
    IF i = 1 THEN LegacyReady(cfg.legacy_dbs, 1, TRUE, trace)
    ELSE IF i = 2 THEN BenchmarkReady(cfg.benchmark_dbs, 1, TRUE, trace)
    ELSE IF i = 3
    THEN DirReady("metrics", site.dirs["metrics"].csv + site.dirs["metrics"].json,
                  MinMetricFiles, trace)
    ELSE IF i = 4 THEN DirReady("erds", site.dirs["erds"].svg, 0, trace)
    ELSE DirReady("reports", site.dirs["reports"].csv + site.dirs["reports"].md, 0, trace)

RECURSIVE StagesFrom(_, _, _)
\* the stages in order, "state[<stage>] = <ready>" after each, then
\* "root_engine.dispose()"; an exception leaves the rest undone
StagesFrom(i, state, trace) ==
    IF i > Len(StageKeys)
    THEN [state |-> state, trace |-> Append(trace, Ev("dispose", "root")), exc |-> "none"]
    ELSE LET s == StageReady(i, trace)
         IN  IF s.exc # "none"
             THEN [state |-> state, trace |-> s.trace, exc |-> s.exc]
             ELSE StagesFrom(i + 1, Append(state, Item(StageKeys[i], s.ready)), s.trace)

\* the try block
Stages ==
    IF createEngineFails
    THEN [state |-> << >>, trace |-> << Ev("create_engine_failed", "root") >>,
          exc |-> "Exception"]
    ELSE StagesFrom(1, << >>, << Ev("create_engine", "root") >>)

\* "except Exception as e: logging.error(...)", then "return state"
verify_full_pipeline_state ==
    LET body == Stages
    IN  IF body.exc # "none"
        THEN Return(body.state, Append(body.trace, Ev("log", "error")))
        ELSE Return(body.state, body.trace)

----------------------------------------------------------------------------
(* main of 00_setup_databases.py and of 01_create_benchmark_dbs.py         *)
(*                                                                         *)
(* A run carries the installation as it changes it: world.catalog and      *)
(* world.connectable, world.schemas and world.benches.  The databases of a *)
(* configuration are distinct, so a database is in the state of the start  *)
(* of the run when its iteration starts.  The trace holds one event per    *)
(* call made by main.  sys.exit(1) is the returned status 1.               *)

World(c, u, s, b) == [catalog |-> c, connectable |-> u, schemas |-> s, benches |-> b]

Run(world, trace, success, exc) ==
    [world |-> world, trace |-> trace, success |-> success, exc |-> exc]

\* "DB_MIN_TABLES.get(db_name, 5)"
DB_MIN_TABLES(db_name) ==
    IF db_name = "TMP_DF8" THEN 27
    ELSE IF db_name = "TMP_DF9" THEN 62
    ELSE IF db_name = "TMP_DF10" THEN 9
    ELSE IF db_name = "TMP_REAN_DF2" THEN 13
    ELSE 5

\* what a dump file loads: every table, fewer tables than the benchmark
\* source needs, fewer tables than the verification needs
Loaded(db_name, k) ==
    [fail |-> "none", name |-> Lower(db_name),
     tables |-> [i \in 1..k |-> [readable |-> TRUE, rows |-> 1]]]

NoSchema == [fail |-> "none", name |-> "none", tables |-> << >>]

NoTable ==
    [table_exists |-> FALSE, row_count |-> 0, index_count |-> 0, stats |-> "no_row",
     fail |-> "none"]

Written(rows) ==
    [table_exists |-> TRUE, row_count |-> rows, index_count |-> MinIndexes,
     stats |-> "analyzed", fail |-> "none"]

\* drop_database, called for a database that answers: DROP DATABASE fails
\* while other sessions use the database, and the error is raised again
drop_database(run, db_name) ==
    LET w == run.world
        t == Append(run.trace, Ev("drop_database", db_name))
    IN  IF rootFail # "none"
        THEN [run EXCEPT !.trace = t, !.exc = "SQLAlchemyError"]
        ELSE IF db_name \notin w.catalog
        THEN [run EXCEPT !.trace = t]
        ELSE IF effects.drop[db_name] = "in_use"
        THEN [run EXCEPT !.trace = Append(t, Ev("log", "error")), !.exc = "SQLAlchemyError"]
        ELSE [run EXCEPT !.trace = t,
                         !.world.catalog = @ \ {db_name},
                         !.world.connectable = @ \ {db_name}]

\* create_database: CREATE DATABASE unless pg_database lists the name
create_database(run, db_name) ==
    LET w == run.world
        t == Append(run.trace, Ev("create_database", db_name))
    IN  IF rootFail # "none"
        THEN [run EXCEPT !.trace = t, !.exc = "SQLAlchemyError"]
        ELSE IF db_name \in w.catalog
        THEN [run EXCEPT !.trace = t]
        ELSE [run EXCEPT
                 !.trace = t,
                 !.world.catalog = @ \cup {db_name},
                 !.world.connectable = @ \cup {db_name},
                 !.world.schemas = [db \in DOMAIN @ |-> IF db = db_name THEN NoSchema ELSE @[db]],
                 !.world.benches = [db \in DOMAIN @ |-> IF db = db_name THEN NoTable ELSE @[db]]]

\* populate_database returns True
PopulateSucceeds(w, db_name) ==
    db_name \in w.connectable /\ effects.populate[db_name] # "failed"

\* populate_database: psql loads the dump file; a failure of psql is caught
populate_database(run, db_name) ==
    LET t == Append(run.trace, Ev("populate_database", db_name))
        how == effects.populate[db_name]
        k == IF how = "loaded" THEN MinSourceTables
             ELSE IF how = "short" THEN DB_MIN_TABLES(db_name)
             ELSE DB_MIN_TABLES(db_name) - 1
    IN  IF db_name \notin run.world.connectable
        THEN [run EXCEPT !.trace = t]
        ELSE [run EXCEPT !.trace = t, !.world.schemas[db_name] = Loaded(db_name, k)]

\* verify_database_setup: the first item of the returned pair
verify_database_setup(w, db_name) ==
    IF createEngineFails \/ db_name \notin w.connectable
    THEN FALSE
    ELSE PopulatedOn(w.schemas[db_name], Lower(db_name), DB_MIN_TABLES(db_name)).val.passed

\* variant: the outcome of the verification is ignored
Setup_unverified(db_name, db_exists, verify_only, force_recreate, run) == ~verify_only

\* the tests of an iteration that lead to its "Create/recreate" part: the
\* database is missing, fails verification or is recreated by force, and
\* the run is not a verify-only run
Setup(db_name, db_exists, verify_only, force_recreate, run) ==
    /\ ~(db_exists /\ ~force_recreate /\ verify_database_setup(run.world, db_name))
    /\ ~verify_only

\* "Create/recreate database", "Populate database", "Verify population was
\* successful" of an iteration of 00_setup_databases.py
SetupDatabase(db_name, db_exists, force_recreate, run) ==
    LET dropped == IF force_recreate /\ db_exists THEN drop_database(run, db_name) ELSE run
        created == IF dropped.exc # "none" THEN dropped ELSE create_database(dropped, db_name)
        populated == populate_database(created, db_name)
        checked == Append(populated.trace, Ev("verify_database_setup", db_name))
    IN  IF created.exc # "none"
        THEN created
        ELSE IF ~PopulateSucceeds(created.world, db_name)
        THEN [populated EXCEPT !.trace = Append(@, Ev("log", "error")), !.success = FALSE]
        ELSE IF verify_database_setup(populated.world, db_name)
        THEN [populated EXCEPT !.trace = Append(checked, Ev("log", "info"))]
        ELSE [populated EXCEPT !.trace = Append(checked, Ev("log", "error")),
                               !.success = FALSE]

\* one iteration of "for i, db_name in enumerate(cfg.legacy_dbs, 1)"
SetupStep(db_name, verify_only, force_recreate, run) ==
    LET db_exists == verify_database_exists(db_name).val
        looked == Append(run.trace, Ev("verify_database_exists", db_name))
        checked == Append(looked, Ev("verify_database_setup", db_name))
        is_verified == verify_database_setup(run.world, db_name)
        examined == IF db_exists /\ ~force_recreate
                    THEN Append(checked, Ev("log", "warning"))
                    ELSE looked
    IN  IF Setup(db_name, db_exists, verify_only, force_recreate, run)
        THEN SetupDatabase(db_name, db_exists, force_recreate,
                           [run EXCEPT !.trace = examined])
        ELSE IF db_exists /\ ~force_recreate /\ is_verified
        THEN [run EXCEPT !.trace = Append(checked, Ev("log", "info"))]
        ELSE IF db_exists /\ ~force_recreate
        THEN [run EXCEPT !.trace = examined, !.success = FALSE]
        ELSE IF ~db_exists
        THEN [run EXCEPT !.trace = Append(examined, Ev("log", "error")), !.success = FALSE]
        ELSE [run EXCEPT !.trace = examined]

RECURSIVE SetupLoop(_, _, _, _, _)
SetupLoop(dbs, i, verify_only, force_recreate, run) ==
    IF i > Len(dbs) \/ run.exc # "none"
    THEN run
    ELSE SetupLoop(dbs, i + 1, verify_only, force_recreate,
                   SetupStep(dbs[i], verify_only, force_recreate, run))

\* "Final summary", the except clauses and the exit status
Finish(run, verify_only) ==
    IF run.exc # "none"
    THEN [status |-> 1, world |-> run.world,
          trace |-> run.trace \o << Ev("log", "error"), Ev("dispose", "root") >>]
    ELSE [status |-> IF run.success THEN 0 ELSE 1, world |-> run.world,
          trace |-> run.trace
                    \o << Ev("log", IF verify_only
                                    THEN IF run.success THEN "all_verified" ELSE "some_failed"
                                    ELSE IF run.success THEN "all_ready" ELSE "errors"),
                          Ev("dispose", "root") >>]

\* main of 00_setup_databases.py
setup_databases(verify_only, force_recreate) ==
    LET w == World(catalog, connectable, site.schemas, site.benches)
    IN  IF createEngineFails
        THEN [status |-> 1, world |-> w, trace |-> << Ev("log", "error") >>]
        ELSE IF \E i \in 1..Len(cfg.legacy_dbs) : ~effects.dump[cfg.legacy_dbs[i]]
        THEN [status |-> 1, world |-> w,
              trace |-> << Ev("log", "missing_dump"), Ev("dispose", "root") >>]
        ELSE Finish(SetupLoop(cfg.legacy_dbs, 1, verify_only, force_recreate,
                              Run(w, << >>, TRUE, "none")),
                    verify_only)

\* verify_benchmark_database: an error of the readiness check is caught
verify_benchmark_database(w, db_name) ==
    IF createEngineFails \/ db_name \notin w.connectable
    THEN FALSE
    ELSE ReadyOn(w.benches[db_name]).val

\* extract_transform_data and write_to_database of an iteration: a database
\* error of the query gives None, one of the load gives False; a query file
\* that cannot be read raises
ExtractAndWrite(run, db_name) ==
    LET got == effects.extract[db_name]
        extracted == Append(run.trace, Ev("extract_transform_data", db_name))
        written == Append(extracted, Ev("write_to_database", db_name))
    IN  IF got = "raise"
        THEN [run EXCEPT !.trace = extracted, !.exc = "Exception"]
        ELSE IF got = "none"
        THEN [run EXCEPT !.trace = Append(extracted, Ev("log", "error")), !.success = FALSE]
        ELSE IF db_name \notin run.world.connectable \/ effects.write[db_name] = "failed"
        THEN [run EXCEPT !.trace = Append(written, Ev("log", "error")), !.success = FALSE]
        ELSE LET w == [run.world EXCEPT
                          !.benches[db_name] = Written(IF got = "empty" THEN 0 ELSE 1)]
                 checked == Append(written, Ev("verify_benchmark_database", db_name))
             IN  IF verify_benchmark_database(w, db_name)
                 THEN [run EXCEPT !.world = w, !.trace = Append(checked, Ev("log", "info"))]
                 ELSE [run EXCEPT !.world = w, !.trace = Append(checked, Ev("log", "error")),
                                  !.success = FALSE]

\* "Create/recreate database", "Extract and load data", "Verify the result"
\* of an iteration of 01_create_benchmark_dbs.py
CreateBenchmarkDatabase(db_name, db_exists, force_recreate, run) ==
    LET dropped == IF force_recreate /\ db_exists THEN drop_database(run, db_name) ELSE run
        created == IF dropped.exc # "none" THEN dropped ELSE create_database(dropped, db_name)
    IN  IF created.exc # "none"
        THEN created
        ELSE ExtractAndWrite(created, db_name)

\* one iteration of "for i, db_name in enumerate(cfg.benchmark_dbs, 1)"
BenchmarkStep(db_name, verify_only, force_recreate, run) ==
    LET db_exists == verify_database_exists(db_name).val
        looked == Append(run.trace, Ev("verify_database_exists", db_name))
        checked == Append(looked, Ev("verify_benchmark_database", db_name))
        is_verified == verify_benchmark_database(run.world, db_name)
        examined == IF db_exists /\ ~force_recreate
                    THEN Append(checked, Ev("log", "warning"))
                    ELSE looked
    IN  IF db_exists /\ ~force_recreate /\ is_verified
        THEN [run EXCEPT !.trace = Append(checked, Ev("log", "info"))]
        ELSE IF db_exists /\ ~force_recreate /\ verify_only
        THEN [run EXCEPT !.trace = examined, !.success = FALSE]
        ELSE IF verify_only /\ ~db_exists
        THEN [run EXCEPT !.trace = Append(examined, Ev("log", "error")), !.success = FALSE]
        ELSE IF verify_only
        THEN [run EXCEPT !.trace = examined]
        ELSE CreateBenchmarkDatabase(db_name, db_exists, force_recreate,
                                     [run EXCEPT !.trace = examined])

RECURSIVE BenchmarkLoop(_, _, _, _, _)
BenchmarkLoop(dbs, i, verify_only, force_recreate, run) ==
    IF i > Len(dbs) \/ run.exc # "none"
    THEN run
    ELSE BenchmarkLoop(dbs, i + 1, verify_only, force_recreate,
                       BenchmarkStep(dbs[i], verify_only, force_recreate, run))

\* variant: unmet prerequisites are logged and the run goes on
Halted_never(verify_only, prereqs_met) == FALSE

\* "if not prereqs_met: ... sys.exit(1)" inside "if not args.verify_only:"
Halted(verify_only, prereqs_met) == ~verify_only /\ ~prereqs_met

\* main of 01_create_benchmark_dbs.py; _map_db_to_sql_file finds a file name
\* for every benchmark database of the configurations used
create_benchmark_dbs(verify_only, force_recreate) ==
    LET w == World(catalog, connectable, site.schemas, site.benches)
        gate == check_pipeline_prerequisites("01_create_benchmark_dbs.py")
        gated == IF verify_only
                 THEN << >>
                 ELSE << Ev("check_pipeline_prerequisites", "01_create_benchmark_dbs.py") >>
    IN  IF createEngineFails
        THEN [status |-> 1, world |-> w, trace |-> << Ev("log", "error") >>]
        ELSE IF Halted(verify_only, gate.val.met)
        THEN [status |-> 1, world |-> w,
              trace |-> gated \o << Ev("log", "prerequisites_not_met"),
                                    Ev("dispose", "root") >>]
        ELSE Finish(BenchmarkLoop(cfg.benchmark_dbs, 1, verify_only, force_recreate,
                                  Run(w, gated, TRUE, "none")),
                    verify_only)

----------------------------------------------------------------------------
(* Benchmark harness: run_performance_benchmarks of                        *)
(* profiling_modules/metrics_performance.py                                *)
(*                                                                         *)
(* The query file is a sequence of lines.  A line is one of                *)
(*   "blank"    white space only                                           *)
(*   "sql"      SQL text                                                   *)
(*   "tpl"      SQL text that holds the ${schema} placeholder              *)
(*   "cmt"      a comment "-- ..." without a tag                           *)
(*   "cat_a"    "-- CATEGORY: baseline"     "cat_b"  "-- Category: JOIN"   *)
(*   "qid_1"    "-- QUERY: 1"               "qid_2"  "-- QUERY: 2.1"       *)
(*   "end"      the delimiter "-- END Query ..."                           *)
(*   "sql_end"  SQL text followed by the delimiter on the same line        *)
(* The text of an exception is a sequence of characters "x" and "\n".      *)

CategoryTags == {"cat_a", "cat_b"}

QueryIdTags == {"qid_1", "qid_2"}

RECURSIVE Split(_, _, _, _)
\* re.split(r"--\s*END Query.*", sql_script): the delimiter runs to the end
\* of its line; what stands before it on the line stays in the chunk
Split(script, i, chunks, cur) ==
    IF i > Len(script)
    THEN Append(chunks, cur)
    ELSE IF script[i] = "end"
    THEN Split(script, i + 1, Append(chunks, cur), << >>)
    ELSE IF script[i] = "sql_end"
    THEN Split(script, i + 1, Append(chunks, Append(cur, "sql")), << >>)
    ELSE Split(script, i + 1, chunks, Append(cur, script[i]))

query_chunks(script) == Split(script, 1, << >>, << >>)

\* "not chunk.strip()"
IsBlank(chunk) == \A i \in 1..Len(chunk) : chunk[i] = "blank"

\* variant: re.findall(...)[-1], the last tag of the chunk
FirstMatch_last(chunk, tags) ==
    LET hits == {i \in 1..Len(chunk) : chunk[i] \in tags}
    IN  IF hits = {} THEN "none"
        ELSE chunk[CHOOSE i \in hits : \A j \in hits : j <= i]

\* re.search(pattern, chunk): the leftmost match, "none" without a match
FirstMatch(chunk, tags) ==
    LET hits == {i \in 1..Len(chunk) : chunk[i] \in tags}
    IN  IF hits = {} THEN "none"
        ELSE chunk[CHOOSE i \in hits : \A j \in hits : i <= j]

\* group(1) of a tag
TagText(tag) ==
    CASE tag = "cat_a" -> "baseline"
      [] tag = "cat_b" -> "JOIN"
      [] tag = "qid_1" -> "1"
      [] tag = "qid_2" -> "2.1"

\* str.capitalize(): first character upper case, the others lower case
Capitalize(word) ==
    CASE word = "baseline" -> "Baseline"
      [] word = "JOIN" -> "Join"
      [] word = "Unknown" -> "Unknown"

\* "m.group(1) if m else 'Unknown'"
TagOrUnknown(chunk, tags) ==
    LET m == FirstMatch(chunk, tags)
    IN  IF m = "none" THEN "Unknown" ELSE TagText(m)

\* f"{category.capitalize()} Performance - Query {query_id}", kept as its
\* two variable parts
QueryName(chunk) ==
    [category |-> Capitalize(TagOrUnknown(chunk, CategoryTags)),
     query_id |-> TagOrUnknown(chunk, QueryIdTags)]

\* re.sub(r"--.*$", "", chunk, flags=re.MULTILINE).strip(): the SQL lines
StripComments(chunk) == SelectSeq(chunk, LAMBDA t : t \in {"sql", "tpl"})

\* sql_to_execute.replace("${schema}", schema_name)
FinalSql(sql_to_execute, schema_name) ==
    [i \in 1..Len(sql_to_execute) |->
        IF sql_to_execute[i] = "tpl"
        THEN [text |-> "tpl", schema |-> schema_name]
        ELSE [text |-> "sql", schema |-> "n/a"]]

RECURSIVE SplitLinesFrom(_, _, _, _)
SplitLinesFrom(s, i, lines, cur) ==
    IF i > Len(s)
    THEN IF cur = << >> THEN lines ELSE Append(lines, cur)
    ELSE IF s[i] = "\n"
    THEN SplitLinesFrom(s, i + 1, Append(lines, cur), << >>)
    ELSE SplitLinesFrom(s, i + 1, lines, Append(cur, s[i]))

\* str.splitlines(): no line for the empty string, no line after a final "\n"
SplitLines(s) == SplitLinesFrom(s, 1, << >>, << >>)

\* "if not sql_to_execute"
NothingToExecute_never(sql_to_execute) == FALSE

NothingToExecute(sql_to_execute) == sql_to_execute = << >>

\* events of a benchmark run: on is the number of the chunk, 0 for the run
Step(e, i) == [ev |-> e, on |-> i]

\* the except clause of a query (122-129): rollback, then the first line of
\* the text of the exception; splitlines()[0] raises IndexError on no line
HandleException(i, row, msg, trace) ==
    LET lines == SplitLines(msg)
        rolled == Append(trace, Step("rollback", i))
    IN  IF lines = << >>
        THEN Raise("IndexError", rolled)
        ELSE Return([row EXCEPT !.status = "Failed", !.error_message = lines[1]],
                    Append(rolled, Step("log_error", i)))

\* lines 91-138 for chunk number i: one transaction around one query
RunQuery(i, chunk, schema_name) ==
    LET o == harness.outcomes[i]
        pending == [chunk |-> i,
                    query_name |-> QueryName(chunk),
                    status |-> "Pending",
                    latency_ms |-> << >>,
                    records_returned |-> 0,
                    error_message |-> << >>,
                    executed_sql |-> FinalSql(StripComments(chunk), schema_name)]
        done == [pending EXCEPT !.records_returned = IF o.returns_rows THEN o.rows ELSE 0,
                                !.latency_ms = << o.elapsed >>,
                                !.status = "Success"]
    IN  IF o.at = "begin"
        THEN Raise("SQLAlchemyError", << Step("begin_failed", i) >>)
        ELSE IF o.at = "execute"
        THEN HandleException(i, pending, o.msg,
                             << Step("begin", i), Step("execute_failed", i) >>)
        ELSE IF o.at = "fetch" /\ o.returns_rows
        THEN HandleException(i, pending, o.msg,
                             << Step("begin", i), Step("execute", i),
                                Step("fetch_failed", i) >>)
        ELSE IF o.at = "commit"
        THEN HandleException(i, done, o.msg,
                             << Step("begin", i), Step("execute", i),
                                Step("commit_failed", i) >>)
        ELSE Return(done, << Step("begin", i), Step("execute", i),
                             Step("commit", i), Step("log_info", i) >>)

RECURSIVE RunChunks_break(_, _, _, _, _)
\* variant: the loop ends at the first chunk that is skipped
RunChunks_break(chunks, i, results, trace, schema_name) ==
    IF i > Len(chunks)
    THEN Return(results, Append(trace, Step("close", 0)))
    ELSE IF IsBlank(chunks[i])
    THEN Return(results, Append(trace, Step("close", 0)))
    ELSE IF NothingToExecute(StripComments(chunks[i]))
    THEN Return(results, trace \o << Step("log_warning", i), Step("close", 0) >>)
    ELSE LET q == RunQuery(i, chunks[i], schema_name)
         IN  IF q.exc # "none"
             THEN Raise(q.exc, trace \o q.trace \o << Step("close", 0) >>)
             ELSE RunChunks_break(chunks, i + 1, Append(results, q.val),
                                  trace \o q.trace, schema_name)

RECURSIVE RunChunks(_, _, _, _, _)
\* the loop over the chunks inside "with engine.connect()" (66-138); an
\* exception that leaves a query closes the connection and leaves the function
RunChunks(chunks, i, results, trace, schema_name) ==
    IF i > Len(chunks)
    THEN Return(results, Append(trace, Step("close", 0)))
    ELSE IF IsBlank(chunks[i])
    THEN RunChunks(chunks, i + 1, results, trace, schema_name)
    ELSE IF NothingToExecute(StripComments(chunks[i]))
    THEN RunChunks(chunks, i + 1, results,
                   Append(trace, Step("log_warning", i)), schema_name)
    ELSE LET q == RunQuery(i, chunks[i], schema_name)
         IN  IF q.exc # "none"
             THEN Raise(q.exc, trace \o q.trace \o << Step("close", 0) >>)
             ELSE RunChunks(chunks, i + 1, Append(results, q.val),
                            trace \o q.trace, schema_name)

\* the empty DataFrame and the DataFrame of the result rows are sequences
run_performance_benchmarks(schema_name) ==
    IF harness.file = "missing"
    THEN Return(<< >>, << Step("log_warning", 0) >>)
    ELSE IF harness.file = "unreadable"
    THEN Return(<< >>, << Step("log_error", 0) >>)
    ELSE IF ~harness.connect
    THEN Raise("SQLAlchemyError", << Step("log_info", 0), Step("connect_failed", 0) >>)
    ELSE RunChunks(query_chunks(harness.script), 1, << >>,
                   << Step("log_info", 0), Step("connect", 0) >>, schema_name)

----------------------------------------------------------------------------
(* Comparative statistics: calculate_comparative_performance_metrics of    *)
(* 04_run_comparison.py                                                    *)
(*                                                                         *)
(* Latencies are whole units of time; a cell is a number, NaN or an        *)
(* infinity.  The two factors are kept in hundredths, the unit round(2)    *)
(* leaves.                                                                 *)

Num(v) == [kind |-> "num", val |-> v]

NaN == [kind |-> "nan", val |-> 0]

Inf(sign) == [kind |-> "inf", val |-> sign]

\* pd.to_numeric(df["latency_ms"], errors="coerce"): a missing cell is NaN
ToNumeric(cell) == IF cell = << >> THEN NaN ELSE Num(cell[1])

\* variant: the digits after the second decimal are cut off
RoundHalfEven_floor(n, d) == n \div d

\* n / d rounded to the nearest integer, a tie going to the even one
RoundHalfEven(n, d) ==
    LET q == n \div d
        r == n - q * d
    IN  IF 2 * r < d THEN q
        ELSE IF 2 * r > d THEN q + 1
        ELSE IF q % 2 = 0 THEN q ELSE q + 1

\* (a / b * 100).round(2) for scale = 10000 and (a / b).round(2) for
\* scale = 100, in hundredths, with the float results of a division by zero
Ratio(a, b, scale) ==
    IF a.kind # "num" \/ b.kind # "num" THEN NaN
    ELSE IF b.val = 0
    THEN IF a.val = 0 THEN NaN ELSE Inf(IF a.val > 0 THEN 1 ELSE -1)
    ELSE Num(RoundHalfEven(scale * a.val, b.val))

\* a - b on cells
Minus(a, b) ==
    IF a.kind # "num" \/ b.kind # "num" THEN NaN ELSE Num(a.val - b.val)

RECURSIVE PerfData(_, _, _)
\* lines 225-243: the result rows of every database that has the
\* performance_benchmarks metric, in the order of all_data, with the columns
\* database, is_benchmark, category and query_id added
PerfData(all_data, i, df) ==
    IF i > Len(all_data)
    THEN df
    ELSE LET db_info == all_data[i]
             rows == [k \in 1..Len(db_info.rows) |->
                        [database |-> db_info.database,
                         is_benchmark |-> db_info.is_benchmark,
                         category |-> db_info.rows[k].query_name.category,
                         query_id |-> db_info.rows[k].query_name.query_id,
                         status |-> db_info.rows[k].status,
                         latency_ms |-> ToNumeric(db_info.rows[k].latency_ms)]]
         IN  PerfData(all_data, i + 1,
                      IF db_info.has_performance_benchmarks THEN df \o rows ELSE df)

\* variant: no filter on the status
SuccessRows_all(df) == df

\* df[df["status"] == "Success"]
SuccessRows(df) == SelectSeq(df, LAMBDA row : row.status = "Success")

HasPerfData(all_data) ==
    \E i \in 1..Len(all_data) : all_data[i].has_performance_benchmarks

\* variant: the rows of every database, flagged or not
BenchmarkRows_all(df_success, benchmark_dbs) == df_success

\* df_success[df_success["database"].isin(benchmark_dbs)]
BenchmarkRows(df_success, benchmark_dbs) ==
    SelectSeq(df_success, LAMBDA row : row.database \in benchmark_dbs)

\* groupby("category")["latency_ms"].min() at one category: NaN cells are
\* skipped, the group of a category without a number has no minimum
BaselineLatency(rows, category) ==
    LET values == {rows[k].latency_ms.val :
                     k \in {j \in 1..Len(rows) : /\ rows[j].category = category
                                                 /\ rows[j].latency_ms.kind = "num"}}
    IN  IF values = {} THEN NaN
        ELSE Num(CHOOSE v \in values : \A w \in values : v <= w)

\* variant: no override for the rows of the benchmark databases
Compared_computed(row, base_rows, benchmark_dbs) ==
    LET baseline == BaselineLatency(base_rows, row.category)
    IN  [database |-> row.database,
         is_benchmark |-> row.is_benchmark,
         category |-> row.category,
         query_id |-> row.query_id,
         status |-> row.status,
         latency_ms |-> row.latency_ms,
         baseline_latency_ms |-> baseline,
         schema_efficiency_factor |-> Ratio(row.latency_ms, baseline, 100),
         performance_improvement_factor |->
             Ratio(Minus(row.latency_ms, baseline), row.latency_ms, 10000)]

\* lines 265-276 for one row of df_success
Compared(row, base_rows, benchmark_dbs) ==
    LET baseline == BaselineLatency(base_rows, row.category)
    IN  [database |-> row.database,
         is_benchmark |-> row.is_benchmark,
         category |-> row.category,
         query_id |-> row.query_id,
         status |-> row.status,
         latency_ms |-> row.latency_ms,
         baseline_latency_ms |-> baseline,
         schema_efficiency_factor |-> Ratio(row.latency_ms, baseline, 100),
         performance_improvement_factor |->
             IF row.database \in benchmark_dbs
             THEN Num(0)
             ELSE Ratio(Minus(row.latency_ms, baseline), row.latency_ms, 10000)]

\* the table returned: "empty" is pd.DataFrame(), "success" the Success rows
\* without the comparison columns, "compared" the Success rows with them
Table(kind, rows) == [kind |-> kind, rows |-> rows]

calculate_comparative_performance_metrics(all_data) ==
    IF ~HasPerfData(all_data)
    THEN Return(Table("empty", << >>), << Ev("log", "info"), Ev("log", "warning") >>)
    ELSE LET df == PerfData(all_data, 1, << >>)
             df_success == SuccessRows(df)
             benchmark_dbs == {df_success[k].database :
                                 k \in {j \in 1..Len(df_success) : df_success[j].is_benchmark}}
             base_rows == BenchmarkRows(df_success, benchmark_dbs)
         IN  IF df_success = << >>
             THEN Return(Table("empty", << >>),
                         << Ev("log", "info"), Ev("log", "warning") >>)
             ELSE IF benchmark_dbs = {}
             THEN Return(Table("success", df_success),
                         << Ev("log", "info"), Ev("log", "error") >>)
             ELSE Return(Table("compared",
                               [k \in 1..Len(df_success) |->
                                   Compared(df_success[k], base_rows, benchmark_dbs)]),
                         << Ev("log", "info"), Ev("log", "info") >>)

----------------------------------------------------------------------------
(* Profiling pipeline: main of 02_run_profiling_pipeline.py *)

Metrics ==
    << "basic_metrics", "schema_counts", "table_metrics", "column_structure",
       "column_profiles", "interop_metrics", "performance_benchmarks" >>

\* get_db_list
databases_to_profile == cfg.legacy_dbs \o cfg.benchmark_dbs

IsLegacy(db_name) == \E i \in 1..Len(cfg.legacy_dbs) : cfg.legacy_dbs[i] = db_name

\* events of the run: what happened to which metric of which database
Did(e, db_name, metric) == [ev |-> e, on |-> db_name, metric |-> metric]

Bad(db_name, metric, at) == [db |-> db_name, metric |-> metric, at |-> at] \in profiling.bad

\* "try: data = gather(engine, ...); save_results(data, ...) except Exception:
\* logging.error(...)" for one metric
TryMetric(db_name, metric, gather_raises) ==
    IF gather_raises
    THEN << Did("run_failed", db_name, metric), Did("log_error", db_name, metric) >>
    ELSE IF Bad(db_name, metric, "save")
    THEN << Did("run", db_name, metric), Did("save_failed", db_name, metric),
            Did("log_error", db_name, metric) >>
    ELSE << Did("run", db_name, metric), Did("save", db_name, metric) >>

\* the performance benchmarks of one database (lines 309-365)
TryBenchmarks(db_name, schema_name) ==
    LET metric == "performance_benchmarks"
        file == profiling.query_file[db_name]
    IN  IF file = "none"
        THEN << Did("skip", db_name, metric) >>
        ELSE IF file = "missing"
        THEN << Did("log_error", db_name, metric) >>
        ELSE TryMetric(db_name, metric, run_performance_benchmarks(schema_name).exc # "none")

\* the metric steps of one connected database (lines 206-365)
GatherMetrics(db_name) ==
    LET schema_name == IF IsLegacy(db_name) THEN Lower(db_name) ELSE "public"
        plain(metric) == TryMetric(db_name, metric, Bad(db_name, metric, "run"))
    IN  plain("basic_metrics") \o plain("schema_counts") \o plain("table_metrics")
        \o plain("column_structure") \o plain("column_profiles")
        \o (IF IsLegacy(db_name)
            THEN plain("interop_metrics")
            ELSE << Did("skip", db_name, "interop_metrics") >>)
        \o TryBenchmarks(db_name, schema_name)

\* variant: break instead of continue
AfterConnectFailure_break(dbs, i) == Len(dbs) + 1

\* "except Exception: logging.error(...); continue" of the connection test
AfterConnectFailure(dbs, i) == i + 1

RECURSIVE ProfileDatabases(_, _, _)
\* the loop over databases_to_profile (lines 180-367)
ProfileDatabases(dbs, i, trace) ==
    IF i > Len(dbs)
    THEN trace
    ELSE IF createEngineFails
    THEN ProfileDatabases(dbs, AfterConnectFailure(dbs, i),
            trace \o << Did("create_engine_failed", dbs[i], "n/a"),
                        Did("log_error", dbs[i], "n/a") >>)
    ELSE IF dbs[i] \notin connectable
    THEN ProfileDatabases(dbs, AfterConnectFailure(dbs, i),
            trace \o << Did("create_engine", dbs[i], "n/a"),
                        Did("connect_failed", dbs[i], "n/a"),
                        Did("log_error", dbs[i], "n/a") >>)
    ELSE ProfileDatabases(dbs, i + 1,
            trace \o << Did("create_engine", dbs[i], "n/a"),
                        Did("connect", dbs[i], "n/a"),
                        Did("close", dbs[i], "n/a") >>
                  \o GatherMetrics(dbs[i]))

\* main of the profiling pipeline, from the loop on; it returns None
run_profiling_pipeline == Return("None", ProfileDatabases(databases_to_profile, 1, << >>))

----------------------------------------------------------------------------
(* The environments the operations are run against *)

DbNames == {"tmp_df8", "tmp_df9", "TMP_DF9", "tmp_bench"}

Configs ==
    { [source_db |-> "tmp_df9", legacy_dbs |-> << "tmp_df8", "tmp_df9" >>,
       benchmark_dbs |-> << "tmp_bench" >>],
      [source_db |-> "TMP_DF9", legacy_dbs |-> << "TMP_DF9" >>,
       benchmark_dbs |-> << "tmp_bench" >>] }

RootFails == {"none", "connect", "execute"}

SchemaFails == {"none", "connect", "schema_check", "tables_query"}

SchemaNames == {"none", "tmp_df9", "TMP_DF9"}

TableKinds == [readable : BOOLEAN, rows : 0..MaxRows]

FreeTables == UNION { [1..n -> TableKinds] : n \in 0..MaxFreeTables }

PadSeq(k, r) == [i \in 1..k |-> [readable |-> TRUE, rows |-> r]]

\* up to MaxFreeTables arbitrary tables, followed by no or PadTables readable
\* tables of equal size (enough tables to reach the largest min_tables in use)
TableStates ==
    { f \o PadSeq(k, r) : f \in FreeTables, k \in {0, PadTables}, r \in 0..MaxRows }

MaxIndexes == 5

BenchFails == {"none", "connect", "table_check", "count", "index", "stats"}

BenchStats == {"no_row", "never_analyzed", "analyzed", "autoanalyzed"}

BenchStates ==
    [table_exists : BOOLEAN, row_count : 0..MaxRows, index_count : 0..MaxIndexes,
     stats : BenchStats, fail : BenchFails]

FsStates == [dir_exists : BOOLEAN, csv : 0..1, json : 0..1, fail : BOOLEAN]

ScriptNames ==
    {"01_create_benchmark_dbs.py", "02_run_profiling_pipeline.py", "03_generate_erds.py",
     "04_run_comparison.py", "01_create_benchmark_dbs", "unknown_script.py"}

KnownScripts ==
    {"01_create_benchmark_dbs.py", "02_run_profiling_pipeline.py", "03_generate_erds.py",
     "04_run_comparison.py"}

MinTablesArgs == {1, 5, MinSourceTables}

\* a healthy installation: every database up, source schema populated
MaxLines == 4
MaxMsgLen == 2
MaxElapsed == 1
MaxReturned == 1

Lines == {"blank", "sql", "tpl", "cmt", "cat_a", "cat_b", "qid_1", "qid_2", "end", "sql_end"}

Scripts == UNION { [1..n -> Lines] : n \in 0..MaxLines }

Messages == UNION { [1..n -> {"x", "\n"}] : n \in 0..MaxMsgLen }

\* what the server does with one query: the step that raises ("none": no
\* step), the text of the exception, whether the statement returns rows, how
\* many, and the time measured by perf_counter
Succeeds ==
    { [at |-> "none", msg |-> << >>, returns_rows |-> rr, rows |-> n, elapsed |-> e] :
        rr \in BOOLEAN, n \in 0..MaxReturned, e \in 0..MaxElapsed }

Fails ==
    { [at |-> a, msg |-> m, returns_rows |-> TRUE, rows |-> MaxReturned,
       elapsed |-> MaxElapsed] :
        a \in {"begin", "execute", "fetch", "commit"}, m \in Messages }

Outcomes == Succeeds \cup Fails

PlainSuccess == [at |-> "none", msg |-> << >>, returns_rows |-> TRUE,
                 rows |-> MaxReturned, elapsed |-> MaxElapsed]

PlainFailure == [at |-> "execute", msg |-> << "x" >>, returns_rows |-> TRUE,
                 rows |-> MaxReturned, elapsed |-> MaxElapsed]

TwoQueries == << "cat_a", "qid_1", "sql", "end", "cat_b", "qid_2", "tpl" >>

ThreeChunks == << "sql", "end", "cmt", "end", "sql", "end" >>

HarnessSchemas == {"tmp_df9", "public"}

Benchmark(file, connect, script, outcomes) ==
    [file |-> file, connect |-> connect, script |-> script, outcomes |-> outcomes]

MaxLatency == 3
MaxPoolRows == 3

PoolDbs == << "tmp_bench", "tmp_bench_v2", "tmp_df9" >>

Categories == {"Baseline", "Join"}

\* rows of a performance_benchmarks file: a Success row has a latency, a
\* Failed row has none or, after a failed commit, the one measured
ResultRows ==
    { [query_name |-> [category |-> c, query_id |-> "1"], status |-> "Success",
       latency_ms |-> << v >>] : c \in Categories, v \in 0..MaxLatency }
    \cup
    { [query_name |-> [category |-> c, query_id |-> "1"], status |-> "Failed",
       latency_ms |-> l] : c \in Categories, l \in {<< >>, << 0 >>} }

\* n result rows, each placed in one of the databases, database by database
Placed(n) ==
    { f \in [1..n -> (1..Len(PoolDbs)) \X ResultRows] :
        \A j, k \in 1..n : j < k => f[j][1] <= f[k][1] }

RowsOf(placed, d) ==
    LET mine == SelectSeq(placed, LAMBDA pr : pr[1] = d)
    IN  [k \in 1..Len(mine) |-> mine[k][2]]

\* all_data: flags[d] is the is_benchmark flag of database d; a database
\* without result rows has an empty performance_benchmarks table when
\* empty_table holds and no such metric otherwise
AllData(flags, placed, empty_table) ==
    [d \in 1..Len(PoolDbs) |->
        [database |-> PoolDbs[d],
         is_benchmark |-> flags[d],
         has_performance_benchmarks |-> (RowsOf(placed, d) # << >> \/ empty_table),
         rows |-> RowsOf(placed, d)]]

FlagPatterns ==
    { << TRUE, TRUE, FALSE >>, << TRUE, FALSE, FALSE >>,
      << FALSE, TRUE, FALSE >>, << FALSE, FALSE, FALSE >> }

MaxBad == 2

\* a metric step that raises: in the gathering function ("run") or in
\* save_results ("save"); the benchmarks raise as the harness does
BadSteps ==
    { [db |-> d, metric |-> Metrics[m], at |-> a] :
        d \in {"tmp_df8", "tmp_df9"}, m \in 1..6, a \in {"run", "save"} }
    \cup { [db |-> "tmp_bench", metric |-> Metrics[m], at |-> a] :
             m \in 1..5, a \in {"run", "save"} }
    \cup { [db |-> d, metric |-> Metrics[7], at |-> "save"] :
             d \in {"tmp_df8", "tmp_df9", "tmp_bench"} }

RECURSIVE BadSets(_)
\* the sets of at most n raising steps
BadSets(n) ==
    IF n = 0 THEN {{}}
    ELSE LET fewer == BadSets(n - 1)
         IN  fewer \cup { b \cup {x} : b \in fewer, x \in BadSteps }

QueryFiles ==
    { [d \in {"tmp_df8", "tmp_df9", "tmp_bench"} |-> f] : f \in {"none", "missing", "present"} }
    \cup { [tmp_df8 |-> "present", tmp_df9 |-> "missing", tmp_bench |-> "none"] }

AllPresent == [d \in {"tmp_df8", "tmp_df9", "tmp_bench"} |-> "present"]

NoProfiling == [bad |-> {}, query_file |-> AllPresent]

\* a query file whose queries succeed, and one whose first query raises an
\* exception without text
HealthyRun == Benchmark("ok", TRUE, TwoQueries, << PlainSuccess, PlainSuccess >>)

AbortedRun ==
    Benchmark("ok", TRUE, TwoQueries,
              << [PlainFailure EXCEPT !.msg = << >>], PlainSuccess >>)

HealthyCfg == [source_db |-> "tmp_df9", legacy_dbs |-> << "tmp_df8", "tmp_df9" >>,
               benchmark_dbs |-> << "tmp_bench" >>]

HealthyBench == [table_exists |-> TRUE, row_count |-> 1, index_count |-> MaxIndexes,
                 stats |-> "analyzed", fail |-> "none"]

HealthyFs == [dir_exists |-> TRUE, csv |-> 1, json |-> 0, fail |-> FALSE]

\* an installation with two legacy and two benchmark databases
LegacyNames == {"tmp_df8", "tmp_df9"}

BenchmarkNames == {"tmp_benchmark_wide_numeric", "tmp_benchmark_wide_text_nulls"}

SiteCfg == [source_db |-> "tmp_df9", legacy_dbs |-> << "tmp_df8", "tmp_df9" >>,
            benchmark_dbs |-> << "tmp_benchmark_wide_numeric",
                                 "tmp_benchmark_wide_text_nulls" >>]

Schema(fail, name, tabs) == [fail |-> fail, name |-> name, tables |-> tabs]

Populated(db) == Schema("none", Lower(db), PadSeq(MinLegacyTables, 1))

\* a legacy database: populated, one table short, without rows, without its
\* schema, with a table that cannot be counted, refusing the schema check
LegacyStates(db) ==
    { Populated(db),
      Schema("none", Lower(db), PadSeq(MinLegacyTables - 1, 1)),
      Schema("none", Lower(db), PadSeq(MinLegacyTables, 0)),
      Schema("none", "none", << >>),
      Schema("none", Lower(db),
             Append(PadSeq(MinLegacyTables, 1), [readable |-> FALSE, rows |-> 0])),
      Schema("schema_check", Lower(db), PadSeq(MinLegacyTables, 1)) }

BenchmarkStates ==
    { HealthyBench,
      [HealthyBench EXCEPT !.table_exists = FALSE],
      [HealthyBench EXCEPT !.row_count = 0],
      [HealthyBench EXCEPT !.index_count = 0, !.stats = "never_analyzed"],
      [HealthyBench EXCEPT !.fail = "count"] }

Dir(exists, fail, csv, json, svg, md) ==
    [exists |-> exists, fail |-> fail, csv |-> csv, json |-> json, svg |-> svg, md |-> md]

MissingDir == Dir(FALSE, FALSE, 0, 0, 0, 0)

UnreadableDir == Dir(TRUE, TRUE, 0, 0, 0, 0)

MetricsDirs ==
    { MissingDir, UnreadableDir,
      Dir(TRUE, FALSE, 0, 0, 0, 0),
      Dir(TRUE, FALSE, MinMetricFiles - 1, 1, 0, 0),
      Dir(TRUE, FALSE, MinMetricFiles, 1, 0, 0),
      Dir(TRUE, FALSE, 0, MinMetricFiles + 1, 0, 0) }

ErdsDirs ==
    { MissingDir, UnreadableDir, Dir(TRUE, FALSE, 1, 0, 0, 0), Dir(TRUE, FALSE, 0, 0, 1, 0) }

ReportsDirs ==
    { MissingDir, UnreadableDir, Dir(TRUE, FALSE, 0, 1, 1, 0),
      Dir(TRUE, FALSE, 1, 0, 0, 0), Dir(TRUE, FALSE, 0, 0, 0, 1) }

Dirs(metrics, erds, reports) ==
    [d \in {"metrics", "erds", "reports"} |->
        IF d = "metrics" THEN metrics ELSE IF d = "erds" THEN erds ELSE reports]

HealthyDirs ==
    Dirs(Dir(TRUE, FALSE, MinMetricFiles, 1, 0, 0), Dir(TRUE, FALSE, 0, 0, 1, 0),
         Dir(TRUE, FALSE, 1, 0, 0, 1))

HealthySchemas == [db \in LegacyNames |-> Populated(db)]

HealthyBenches == [db \in BenchmarkNames |-> HealthyBench]

\* no installation is set up
NoSite == [schemas |-> << >>, benches |-> << >>, dirs |-> << >>]

\* nothing is run
NoEffects ==
    [dump |-> << >>, populate |-> << >>, drop |-> << >>, extract |-> << >>, write |-> << >>]

\* every dump file is there and loads, every DROP, query and load succeeds
AllWell ==
    [dump |-> [db \in LegacyNames |-> TRUE],
     populate |-> [db \in LegacyNames |-> "loaded"],
     drop |-> [db \in LegacyNames \cup BenchmarkNames |-> "ok"],
     extract |-> [db \in BenchmarkNames |-> "ok"],
     write |-> [db \in BenchmarkNames |-> "ok"]]

\* one step goes wrong for one legacy database
LegacyEffects ==
    {AllWell}
    \cup { [AllWell EXCEPT !.dump[db] = FALSE] : db \in LegacyNames }
    \cup { [AllWell EXCEPT !.populate[db] = how] :
              db \in LegacyNames, how \in {"short", "truncated", "failed"} }
    \cup { [AllWell EXCEPT !.drop[db] = "in_use"] : db \in LegacyNames }

\* one step goes wrong for one benchmark database
BenchmarkEffects ==
    {AllWell}
    \cup { [AllWell EXCEPT !.extract[db] = got] :
              db \in BenchmarkNames, got \in {"empty", "none", "raise"} }
    \cup { [AllWell EXCEPT !.write[db] = "failed"] : db \in BenchmarkNames }
    \cup { [AllWell EXCEPT !.drop[db] = "in_use"] : db \in BenchmarkNames }

\* a legacy database as a dump file or an interrupted load leaves it
LegacyContents(db) ==
    { Loaded(db, MinSourceTables), Loaded(db, DB_MIN_TABLES(db)),
      Loaded(db, DB_MIN_TABLES(db) - 1), NoSchema }

BenchmarkContents == { Written(1), Written(0), NoTable }

NoCall == [op |-> "none", args |-> << >>]

NoRet == Return(FALSE, << >>)

InitCall == call = NoCall /\ ret = NoRet /\ repeat = FALSE

\* no benchmark run is set up
NoHarness == Benchmark("missing", FALSE, << >>, << >>)

DbHealthy ==
    /\ rootFail = "none"
    /\ catalog = DbNames
    /\ connectable = DbNames

SchemaHealthy ==
    /\ schemaFail = "none"
    /\ schemaName = "tmp_df9"
    /\ tables = PadSeq(PadTables + MaxFreeTables, 1)

\* the server state varies
InitDb ==
    /\ cfg = HealthyCfg
    /\ createEngineFails = FALSE
    /\ rootFail \in RootFails
    /\ catalog \in SUBSET DbNames
    /\ connectable \in SUBSET catalog
    /\ SchemaHealthy
    /\ bench = HealthyBench
    /\ fs = HealthyFs
    /\ harness = NoHarness
    /\ pool = << >>
    /\ profiling = NoProfiling
    /\ site = NoSite
    /\ effects = NoEffects
    /\ InitCall

\* the schema of the inspected database varies
InitSchema ==
    /\ cfg = HealthyCfg
    /\ createEngineFails = FALSE
    /\ DbHealthy
    /\ schemaFail \in SchemaFails
    /\ schemaName \in SchemaNames
    /\ tables \in TableStates
    /\ bench = HealthyBench
    /\ fs = HealthyFs
    /\ harness = NoHarness
    /\ pool = << >>
    /\ profiling = NoProfiling
    /\ site = NoSite
    /\ effects = NoEffects
    /\ InitCall

\* the benchmark database varies
InitBench ==
    /\ cfg = HealthyCfg
    /\ createEngineFails = FALSE
    /\ DbHealthy
    /\ SchemaHealthy
    /\ bench \in BenchStates
    /\ fs = HealthyFs
    /\ harness = NoHarness
    /\ pool = << >>
    /\ profiling = NoProfiling
    /\ site = NoSite
    /\ effects = NoEffects
    /\ InitCall

EmptySchema ==
    /\ schemaFail = "none"
    /\ schemaName = "tmp_df9"
    /\ tables = PadSeq(PadTables + MaxFreeTables, 0)

\* the gate is run against every server state, every schema state of a
\* reachable or unreachable source database, and every state of the metrics
\* directory
InitGate ==
    /\ cfg \in Configs
    /\ createEngineFails \in BOOLEAN
    /\ bench = HealthyBench
    /\ harness = NoHarness
    /\ pool = << >>
    /\ profiling = NoProfiling
    /\ site = NoSite
    /\ effects = NoEffects
    /\ InitCall
    /\ \/ /\ rootFail \in RootFails
          /\ catalog \in SUBSET DbNames
          /\ connectable \in SUBSET catalog
          /\ SchemaHealthy \/ EmptySchema
          /\ fs = HealthyFs
       \/ /\ rootFail = "none"
          /\ catalog = DbNames
          /\ connectable \in {DbNames, DbNames \ {cfg.source_db}}
          /\ schemaFail \in SchemaFails
          /\ schemaName \in SchemaNames
          /\ tables \in TableStates
          /\ fs = HealthyFs
       \/ /\ rootFail \in RootFails
          /\ catalog \in {{}, DbNames}
          /\ connectable = catalog
          /\ SchemaHealthy
          /\ fs \in FsStates

Init == InitDb \/ InitSchema \/ InitBench

\* benchmark runs: every query file up to MaxLines lines with queries that
\* all succeed or all fail the same way; two fixed files with every
\* combination of what the server does with their queries; a missing or
\* unreadable file; a database that refuses the connection
InitHarness ==
    /\ cfg = HealthyCfg
    /\ createEngineFails = FALSE
    /\ DbHealthy
    /\ SchemaHealthy
    /\ bench = HealthyBench
    /\ fs = HealthyFs
    /\ pool = << >>
    /\ profiling = NoProfiling
    /\ site = NoSite
    /\ effects = NoEffects
    /\ InitCall
    /\ \/ \E script \in Scripts, o \in {PlainSuccess, PlainFailure} :
             harness = Benchmark("ok", TRUE, script, [i \in 1..(MaxLines + 1) |-> o])
       \/ \E outcomes \in [1..2 -> Outcomes] :
             harness = Benchmark("ok", TRUE, TwoQueries, outcomes)
       \/ \E o1, o3 \in Outcomes :
             /\ o1.msg \in {<< >>, << "x" >>}
             /\ o3.msg \in {<< >>, << "x" >>}
             /\ harness = Benchmark("ok", TRUE, ThreeChunks,
                                    << o1, PlainSuccess, o3, PlainSuccess >>)
       \/ \E file \in {"ok", "missing", "unreadable"}, connect \in BOOLEAN :
             harness = Benchmark(file, connect, TwoQueries,
                                 << PlainSuccess, PlainSuccess >>)

\* comparison pools: two flagged databases and one legacy database with
\* every placement of up to MaxPoolRows result rows; every flag pattern and
\* both kinds of database without rows with one row less
InitCompare ==
    /\ cfg = HealthyCfg
    /\ createEngineFails = FALSE
    /\ DbHealthy
    /\ SchemaHealthy
    /\ bench = HealthyBench
    /\ fs = HealthyFs
    /\ harness = NoHarness
    /\ profiling = NoProfiling
    /\ site = NoSite
    /\ effects = NoEffects
    /\ InitCall
    /\ \/ \E n \in 0..MaxPoolRows : \E placed \in Placed(n) :
             pool = AllData(<< TRUE, TRUE, FALSE >>, placed, TRUE)
       \/ \E n \in 0..(MaxPoolRows - 1) : \E placed \in Placed(n) :
             \E flags \in FlagPatterns, empty_table \in BOOLEAN :
                pool = AllData(flags, placed, empty_table)

\* profiling runs: up to MaxBad raising metric steps with all databases up,
\* or with one or all of them refusing the connection; every query-file mapping and every
\* kind of benchmark run with at most one raising step; create_engine raising
InitProfiling ==
    /\ cfg = HealthyCfg
    /\ rootFail = "none"
    /\ catalog = DbNames
    /\ SchemaHealthy
    /\ bench = HealthyBench
    /\ fs = HealthyFs
    /\ pool = << >>
    /\ site = NoSite
    /\ effects = NoEffects
    /\ InitCall
    /\ \/ /\ createEngineFails = FALSE
          /\ \/ /\ connectable \in {{}, {"tmp_df9", "tmp_bench"}, {"tmp_df8", "tmp_df9"},
                                    {"tmp_df8", "tmp_bench"}}
                /\ harness = AbortedRun
             \/ /\ connectable = {"tmp_df8", "tmp_df9", "tmp_bench"}
                /\ harness = HealthyRun
          /\ \E bad \in BadSets(MaxBad) :
                profiling = [bad |-> bad, query_file |-> AllPresent]
       \/ /\ createEngineFails = FALSE
          /\ connectable = {"tmp_df8", "tmp_df9", "tmp_bench"}
          /\ harness \in {HealthyRun, AbortedRun,
                          Benchmark("ok", FALSE, TwoQueries, << PlainSuccess, PlainSuccess >>),
                          Benchmark("missing", TRUE, TwoQueries, << PlainSuccess, PlainSuccess >>)}
          /\ \E bad \in BadSets(MaxBad - 1), query_file \in QueryFiles :
                profiling = [bad |-> bad, query_file |-> query_file]
       \/ /\ createEngineFails = TRUE
          /\ connectable = {"tmp_df8", "tmp_df9", "tmp_bench"}
          /\ harness = HealthyRun
          /\ profiling = NoProfiling

\* installations: the legacy databases vary in presence and schema, or the
\* benchmark databases in presence and content, or the output directories
\* together with the server and with engine creation
InitState ==
    /\ cfg = SiteCfg
    /\ SchemaHealthy
    /\ bench = HealthyBench
    /\ fs = HealthyFs
    /\ harness = NoHarness
    /\ pool = << >>
    /\ profiling = NoProfiling
    /\ effects = NoEffects
    /\ InitCall
    /\ \/ /\ createEngineFails = FALSE
          /\ rootFail = "none"
          /\ \E listed \in SUBSET LegacyNames :
                /\ catalog = listed \cup BenchmarkNames
                /\ \E up \in SUBSET listed : connectable = up \cup BenchmarkNames
          /\ \E a \in LegacyStates("tmp_df8"), b \in LegacyStates("tmp_df9") :
                site = [schemas |-> [db \in LegacyNames |-> IF db = "tmp_df8" THEN a ELSE b],
                        benches |-> HealthyBenches, dirs |-> HealthyDirs]
       \/ /\ createEngineFails = FALSE
          /\ rootFail = "none"
          /\ \E listed \in SUBSET BenchmarkNames :
                /\ catalog = listed \cup LegacyNames
                /\ \E up \in SUBSET listed : connectable = up \cup LegacyNames
          /\ \E benches \in [BenchmarkNames -> BenchmarkStates] :
                site = [schemas |-> HealthySchemas, benches |-> benches,
                        dirs |-> HealthyDirs]
       \/ /\ createEngineFails \in BOOLEAN
          /\ rootFail \in RootFails
          /\ catalog = LegacyNames \cup BenchmarkNames
          /\ connectable = catalog
          /\ \E metrics \in MetricsDirs, erds \in ErdsDirs, reports \in ReportsDirs :
                site = [schemas |-> HealthySchemas, benches |-> HealthyBenches,
                        dirs |-> Dirs(metrics, erds, reports)]

\* the inspected database of the prerequisite check is the source database
SourceInspected ==
    /\ schemaFail = site.schemas[cfg.source_db].fail
    /\ schemaName = site.schemas[cfg.source_db].name
    /\ tables = site.schemas[cfg.source_db].tables

\* servers before, between and after runs of the two scripts: the legacy
\* databases vary while the benchmark databases are all missing or all
\* ready, or the benchmark databases vary over loaded or short legacy
\* databases; the root database refuses connections, or no engine is made
InitSetup ==
    /\ cfg = SiteCfg
    /\ bench = HealthyBench
    /\ fs = HealthyFs
    /\ harness = NoHarness
    /\ pool = << >>
    /\ profiling = NoProfiling
    /\ call = NoCall /\ ret = NoRet /\ repeat = FALSE
    /\ \/ /\ createEngineFails = FALSE
          /\ rootFail = "none"
          /\ effects \in LegacyEffects
          /\ \E listed \in SUBSET LegacyNames, ready \in BOOLEAN :
                /\ catalog = listed \cup (IF ready THEN BenchmarkNames ELSE {})
                /\ \E up \in SUBSET listed :
                      connectable = up \cup (IF ready THEN BenchmarkNames ELSE {})
                /\ \E a \in LegacyContents("tmp_df8"), b \in LegacyContents("tmp_df9") :
                      site = [schemas |-> [db \in LegacyNames |->
                                              IF db \notin listed THEN NoSchema
                                              ELSE IF db = "tmp_df8" THEN a ELSE b],
                              benches |-> [db \in BenchmarkNames |->
                                              IF ready THEN Written(1) ELSE NoTable],
                              dirs |-> HealthyDirs]
       \/ /\ createEngineFails = FALSE
          /\ rootFail = "none"
          /\ effects \in BenchmarkEffects
          /\ \E listed \in SUBSET BenchmarkNames, k \in {MinSourceTables, MinLegacyTables} :
                /\ catalog = listed \cup LegacyNames
                /\ \E up \in SUBSET listed : connectable = up \cup LegacyNames
                /\ \E benches \in [BenchmarkNames -> BenchmarkContents] :
                      site = [schemas |-> [db \in LegacyNames |-> Loaded(db, k)],
                              benches |-> [db \in BenchmarkNames |->
                                              IF db \notin listed THEN NoTable
                                              ELSE benches[db]],
                              dirs |-> HealthyDirs]
       \/ /\ \/ createEngineFails = TRUE /\ rootFail = "none"
             \/ createEngineFails = FALSE /\ rootFail \in {"connect", "execute"}
          /\ effects = AllWell
          /\ catalog \in {{}, LegacyNames, LegacyNames \cup BenchmarkNames}
          /\ connectable = catalog
          /\ site = [schemas |-> [db \in LegacyNames |->
                                     IF db \in catalog THEN Loaded(db, MinSourceTables)
                                     ELSE NoSchema],
                     benches |-> [db \in BenchmarkNames |->
                                     IF db \in catalog THEN Written(1) ELSE NoTable],
                     dirs |-> HealthyDirs]
    /\ SourceInspected

----------------------------------------------------------------------------
(* Operations: one call each; the environment is only read *)

Called(op, args, outcome) ==
    /\ call' = [op |-> op, args |-> args]
    /\ ret' = outcome
    /\ repeat' = (call = [op |-> op, args |-> args])

VerifyDatabaseExists ==
    /\ ~createEngineFails      \* the caller holds an engine made by create_engine
    /\ \E db_name \in DbNames :
          Called("verify_database_exists", << db_name >>, verify_database_exists(db_name))
    /\ UNCHANGED envVars

\* variant: a table whose count query fails is dropped by the check
VerifySchemaPopulated_cleanup ==
    /\ ~createEngineFails
    /\ \E schema_name \in SchemaNames \ {"none"}, min_tables \in MinTablesArgs :
          Called("verify_schema_populated", << schema_name, min_tables >>,
                 verify_schema_populated(schema_name, min_tables))
    /\ tables' = SelectSeq(tables, LAMBDA t : t.readable)
    /\ UNCHANGED << cfg, createEngineFails, rootFail, catalog, connectable,
                    schemaFail, schemaName, bench, fs, harness, pool, profiling, site,
                    effects >>

VerifySchemaPopulated ==
    /\ ~createEngineFails
    /\ \E schema_name \in SchemaNames \ {"none"}, min_tables \in MinTablesArgs :
          Called("verify_schema_populated", << schema_name, min_tables >>,
                 verify_schema_populated(schema_name, min_tables))
    /\ UNCHANGED envVars

VerifyBenchmarkDatabaseReady ==
    /\ ~createEngineFails
    /\ Called("verify_benchmark_database_ready", << >>, verify_benchmark_database_ready)
    /\ UNCHANGED envVars

CheckPipelinePrerequisites ==
    /\ \E script_name \in ScriptNames :
          Called("check_pipeline_prerequisites", << script_name >>,
                 check_pipeline_prerequisites(script_name))
    /\ UNCHANGED envVars

Next ==
    \/ VerifyDatabaseExists
    \/ VerifySchemaPopulated
    \/ VerifyBenchmarkDatabaseReady

Spec == Init /\ [][Next]_vars

NextGate == CheckPipelinePrerequisites

SpecGate == InitGate /\ [][NextGate]_vars

RunPerformanceBenchmarks ==
    /\ \E schema_name \in HarnessSchemas :
          Called("run_performance_benchmarks", << schema_name >>,
                 run_performance_benchmarks(schema_name))
    /\ UNCHANGED envVars

NextHarness == RunPerformanceBenchmarks

SpecHarness == InitHarness /\ [][NextHarness]_vars

CalculateComparativePerformanceMetrics ==
    /\ Called("calculate_comparative_performance_metrics", << >>,
              calculate_comparative_performance_metrics(pool))
    /\ UNCHANGED envVars

NextCompare == CalculateComparativePerformanceMetrics

SpecCompare == InitCompare /\ [][NextCompare]_vars

RunProfilingPipeline ==
    /\ Called("run_profiling_pipeline", << >>, run_profiling_pipeline)
    /\ UNCHANGED envVars

NextProfiling == RunProfilingPipeline

SpecProfiling == InitProfiling /\ [][NextProfiling]_vars

VerifyFullPipelineState ==
    /\ Called("verify_full_pipeline_state", << >>, verify_full_pipeline_state)
    /\ UNCHANGED envVars

NextState == VerifyFullPipelineState

SpecState == InitState /\ [][NextState]_vars

\* a run of a script: its exit status and calls, and the server as it leaves it
Ran(op, verify_only, force_recreate, run) ==
    /\ Called(op, << verify_only, force_recreate >>, Return(run.status, run.trace))
    /\ catalog' = run.world.catalog
    /\ connectable' = run.world.connectable
    /\ site' = [site EXCEPT !.schemas = run.world.schemas, !.benches = run.world.benches]
    /\ schemaFail' = run.world.schemas[cfg.source_db].fail
    /\ schemaName' = run.world.schemas[cfg.source_db].name
    /\ tables' = run.world.schemas[cfg.source_db].tables
    /\ UNCHANGED << cfg, createEngineFails, rootFail, bench, fs, harness, pool, profiling,
                    effects >>

SetupDatabases ==
    \E verify_only \in BOOLEAN, force_recreate \in BOOLEAN :
        Ran("00_setup_databases", verify_only, force_recreate,
            setup_databases(verify_only, force_recreate))

CreateBenchmarkDbs ==
    \E verify_only \in BOOLEAN, force_recreate \in BOOLEAN :
        Ran("01_create_benchmark_dbs", verify_only, force_recreate,
            create_benchmark_dbs(verify_only, force_recreate))

NextSetup == SetupDatabases \/ CreateBenchmarkDbs

SpecSetup == InitSetup /\ [][NextSetup]_vars

----------------------------------------------------------------------------
(* Properties of the verification engine *)

RECURSIVE SumReadable(_)
SumReadable(tabs) ==
    IF tabs = << >> THEN 0
    ELSE (IF Head(tabs).readable THEN Head(tabs).rows ELSE 0) + SumReadable(Tail(tabs))

AllReadable(tabs) == \A i \in 1..Len(tabs) : tabs[i].readable

HasEvent(trace, e) == \E i \in 1..Len(trace) : trace[i] = e

HasSentinel(table_stats) == \E i \in 1..Len(table_stats) : table_stats[i] = -1

IsSchemaCall == call.op = "verify_schema_populated"

\* C1: verify_schema_populated returns passed = true only if the schema
\* exists, it has at least min_tables base tables, the rows counted add up to
\* more than zero and no table carries the -1 sentinel; when the catalog
\* queries themselves succeed these four conditions are also sufficient; a
\* single -1 in the stats forces passed = false.
C1_PassedIff ==
    IsSchemaCall =>
        LET conds == /\ schemaName = call.args[1]
                     /\ Len(tables) >= call.args[2]
                     /\ SumReadable(tables) > 0
                     /\ AllReadable(tables)
        IN  /\ ret.exc = "none"
            /\ ret.val.passed => conds
            /\ schemaFail = "none" => (ret.val.passed <=> conds)
            /\ HasSentinel(ret.val.table_stats) => ~ret.val.passed

C1_Witness ==
    /\ IsSchemaCall
    /\ ret.exc = "none"
    /\ ~ret.val.passed
    /\ Len(ret.val.table_stats) >= call.args[2]
    /\ Cardinality({i \in 1..Len(ret.val.table_stats) : ret.val.table_stats[i] = -1}) = 1
    /\ \E i \in 1..Len(ret.val.table_stats) : ret.val.table_stats[i] > 0

ReachedCounting ==
    /\ IsSchemaCall
    /\ schemaFail = "none"
    /\ schemaName = call.args[1]
    /\ Len(tables) >= call.args[2]

\* C2: once the row-counting step is reached, every enumerated table is
\* counted whatever happened to the tables before it, and table_stats has one
\* entry per table: the real count of a readable table, -1 for a table whose
\* count query failed.
C2_EveryTableReported ==
    ReachedCounting =>
        /\ ret.exc = "none"
        /\ Len(ret.val.table_stats) = Len(tables)
        /\ \A i \in 1..Len(tables) :
              /\ tables[i].readable =>
                    /\ ret.val.table_stats[i] = tables[i].rows
                    /\ HasEvent(ret.trace, Ev("count", i))
              /\ ~tables[i].readable =>
                    /\ ret.val.table_stats[i] = -1
                    /\ HasEvent(ret.trace, Ev("count_failed", i))

C2_Witness ==
    /\ ReachedCounting
    /\ \E i, j, k \in 1..Len(tables) :
          /\ i < j /\ i < k
          /\ ~tables[i].readable /\ ret.val.table_stats[i] = -1
          /\ tables[j].readable /\ ret.val.table_stats[j] = 0
          /\ tables[k].readable /\ ret.val.table_stats[k] > 0

IsExistsCall == call.op = "verify_database_exists"

\* C4: verify_database_exists returns true exactly when the catalog lookup
\* finds the name and the test connection to the database succeeds; it never
\* raises; when the lookup does not find the name no engine is made for and
\* no connection is attempted to the database.
C4_ExistsIff ==
    IsExistsCall =>
        LET db_name == call.args[1]
        IN  /\ ret.exc = "none"
            /\ ret.val = (rootFail = "none" /\ db_name \in catalog /\ db_name \in connectable)
            /\ db_name \notin catalog =>
                  \A i \in 1..Len(ret.trace) : ret.trace[i].on # db_name

C4_Witness ==
    /\ IsExistsCall
    /\ rootFail = "none"
    /\ call.args[1] \in catalog \ connectable
    /\ ret.exc = "none"
    /\ ret.val = FALSE
    /\ HasEvent(ret.trace, Ev("connect_failed", call.args[1]))

EngineCalls ==
    {"verify_database_exists", "verify_schema_populated", "verify_benchmark_database_ready"}

ErrorRaised(trace) ==
    \E i \in 1..Len(trace) : trace[i].ev \in {"connect_failed", "execute_failed", "count_failed"}

CountFailed(trace) == \E i \in 1..Len(trace) : trace[i].ev = "count_failed"

NegativeResult(op) ==
    IF op = "verify_schema_populated"
    THEN [passed |-> FALSE, table_stats |-> NoStats]
    ELSE FALSE

\* C5 as stated: every connection or query error raised at any step of one
\* of the three verification functions is caught and the function returns
\* false, or (false, empty stats).
C5_AnyErrorGivesEmptyNegative ==
    (call.op \in EngineCalls /\ ErrorRaised(ret.trace)) =>
        /\ ret.exc = "none"
        /\ ret.val = NegativeResult(call.op)

\* C5 (amended): every connection or query error raised at any step is
\* caught and no error leaves the function; the result is false, or
\* (false, empty stats), except that a failed per-table count query yields
\* (false, stats) with an entry for every table and -1 for the failed ones.
C5_AnyErrorGivesNegative ==
    (call.op \in EngineCalls /\ ErrorRaised(ret.trace)) =>
        /\ ret.exc = "none"
        /\ IF CountFailed(ret.trace)
           THEN /\ ~ret.val.passed
                /\ Len(ret.val.table_stats) = Len(tables)
                /\ \A i \in 1..Len(tables) :
                      (ret.val.table_stats[i] = -1) <=> HasEvent(ret.trace, Ev("count_failed", i))
           ELSE ret.val = NegativeResult(call.op)

C5_Witness ==
    /\ call.op = "verify_benchmark_database_ready"
    /\ bench.table_exists
    /\ bench.row_count > 0
    /\ HasEvent(ret.trace, Ev("execute_failed", "stats"))
    /\ ret.exc = "none"
    /\ ret.val = FALSE

IsReadyCall == call.op = "verify_benchmark_database_ready"

\* C6: when no query fails, verify_benchmark_database_ready returns true
\* exactly when the benchmark table exists and has rows; too few indexes and
\* missing statistics only add a warning to the log.
C6_HardGates ==
    (IsReadyCall /\ bench.fail = "none") =>
        /\ ret.exc = "none"
        /\ ret.val = (bench.table_exists /\ bench.row_count > 0)
        /\ (ret.val /\ bench.index_count < 5) =>
              HasEvent(ret.trace, Ev("log", "warning_few_indexes"))
        /\ (ret.val /\ bench.stats \in {"no_row", "never_analyzed"}) =>
              HasEvent(ret.trace, Ev("log", "warning_statistics"))

C6_Witness ==
    /\ IsReadyCall
    /\ bench.fail = "none"
    /\ bench.index_count < 5
    /\ bench.stats = "no_row"
    /\ ret.exc = "none"
    /\ ret.val = TRUE
    /\ HasEvent(ret.trace, Ev("log", "warning_few_indexes"))
    /\ HasEvent(ret.trace, Ev("log", "warning_statistics"))

----------------------------------------------------------------------------
(* Properties of the prerequisite gate *)

IsGateCall == call.op = "check_pipeline_prerequisites"

GateFailure == Err("Failed to check prerequisites", "Exception")

\* C7: whatever the stage name and the environment, also when an exception
\* occurs during the evaluation, the returned report has
\* met = (errors is empty).
C7_MetIffNoErrors ==
    IsGateCall =>
        /\ ret.exc = "none"
        /\ ret.val.met <=> (Len(ret.val.errors) = 0)

C7_Witness ==
    /\ IsGateCall
    /\ call.args[1] = "04_run_comparison.py"
    /\ ~createEngineFails
    /\ fs.fail
    /\ ret.exc = "none"
    /\ ~ret.val.met
    /\ ret.val.errors = << GateFailure >>

IsUnknownStage == IsGateCall /\ call.args[1] \notin KnownScripts

\* C8 as stated: for a stage name outside the lookup table the report is
\* met = true with no errors, whatever the databases, the file system and
\* the configuration.
C8_UnknownStagePasses ==
    IsUnknownStage =>
        /\ ret.exc = "none"
        /\ ret.val.met
        /\ ret.val.errors = << >>

\* C8 (amended): for a stage name outside the lookup table the report is
\* met = true with no errors whatever the databases and the file system,
\* unless the construction of the root engine raises; then the report is
\* met = false with the single generic error.
C8_UnknownStagePassesIfEngine ==
    IsUnknownStage =>
        /\ ret.exc = "none"
        /\ IF createEngineFails
           THEN ~ret.val.met /\ ret.val.errors = << GateFailure >>
           ELSE ret.val.met /\ ret.val.errors = << >>

C8_Witness ==
    /\ IsUnknownStage
    /\ ~createEngineFails
    /\ rootFail = "connect"
    /\ catalog = {}
    /\ ret.exc = "none"
    /\ ret.val.met
    /\ ret.val.errors = << >>

DatabaseAccessible(db_name) ==
    /\ ~createEngineFails
    /\ rootFail = "none"
    /\ db_name \in catalog
    /\ db_name \in connectable

SchemaChecked(trace) == \E i \in 1..Len(trace) : trace[i].on = "schema_db"

\* C9: for the benchmark-creation stage the report is met = true exactly when
\* the source database exists and is accessible and its schema (the
\* lower-cased database name) is populated with at least 15 tables; the
\* schema is looked at only when the database exists, and the report has at
\* most one error.
C9_BenchmarkCreationStage ==
    (IsGateCall /\ call.args[1] = "01_create_benchmark_dbs.py") =>
        /\ ret.exc = "none"
        /\ ret.val.met <=>
              /\ DatabaseAccessible(cfg.source_db)
              /\ schemaFail = "none"
              /\ schemaName = "tmp_df9"
              /\ Len(tables) >= 15
              /\ SumReadable(tables) > 0
              /\ AllReadable(tables)
        /\ SchemaChecked(ret.trace) <=> DatabaseAccessible(cfg.source_db)
        /\ Len(ret.val.errors) <= 1

C9_Witness ==
    /\ IsGateCall
    /\ call.args[1] = "01_create_benchmark_dbs.py"
    /\ DatabaseAccessible(cfg.source_db)
    /\ schemaName = "tmp_df9"
    /\ Len(tables) = 14
    /\ AllReadable(tables)
    /\ SumReadable(tables) > 0
    /\ ret.exc = "none"
    /\ ~ret.val.met
    /\ Len(ret.val.errors) = 1

ConfiguredDbs == cfg.legacy_dbs \o cfg.benchmark_dbs

MissingDbs == SelectSeq(ConfiguredDbs, LAMBDA d : ~DatabaseAccessible(d))

Lookups(trace) ==
    Cardinality({i \in 1..Len(trace) :
                    trace[i].on = "root" /\ trace[i].ev \in {"connect", "connect_failed"}})

IsComparisonStage == IsGateCall /\ call.args[1] = "04_run_comparison.py"

MetricFilesPresent == fs.dir_exists /\ fs.csv + fs.json >= 1

DatabaseTouched(trace) ==
    \E i \in 1..Len(trace) :
        trace[i].ev \in {"connect", "connect_failed", "execute", "execute_failed"}

\* C11 as stated: for the comparison stage the report is met = true exactly
\* when the metrics directory exists and holds at least one .csv or .json
\* file; nothing but the file system decides.
C11_ComparisonStageFilesOnly ==
    IsComparisonStage =>
        /\ ret.exc = "none"
        /\ ret.val.met <=> MetricFilesPresent

\* C11 (amended): for the comparison stage the report is met = true exactly
\* when the root engine can be constructed, no file-system call raises, and
\* the metrics directory exists and holds at least one .csv or .json file;
\* no database is connected to or queried, so the reachability and the state
\* of the databases do not matter.
C11_ComparisonStage ==
    IsComparisonStage =>
        /\ ret.exc = "none"
        /\ ret.val.met <=> (~createEngineFails /\ ~fs.fail /\ MetricFilesPresent)
        /\ ~DatabaseTouched(ret.trace)

C11_Witness ==
    /\ IsComparisonStage
    /\ ~createEngineFails
    /\ rootFail = "connect"
    /\ catalog = {}
    /\ ~fs.fail
    /\ fs.dir_exists /\ fs.csv = 0 /\ fs.json = 1
    /\ ret.exc = "none"
    /\ ret.val.met

ExceptionDuring(trace) ==
    \E i \in 1..Len(trace) : trace[i].ev \in {"create_engine_failed", "fs_failed"}

GateFailures(errors) == {i \in 1..Len(errors) : errors[i] = GateFailure}

\* C12: check_pipeline_prerequisites never raises; an exception thrown during
\* the evaluation leaves exactly one generic 'Failed to check prerequisites'
\* entry, the last one of the list, in a report with met = false; without an
\* exception the list has no such entry.
C12_NeverRaises ==
    IsGateCall =>
        /\ ret.exc = "none"
        /\ ret.val.met \in BOOLEAN
        /\ ExceptionDuring(ret.trace) =>
              /\ ~ret.val.met
              /\ GateFailures(ret.val.errors) = {Len(ret.val.errors)}
        /\ ~ExceptionDuring(ret.trace) => GateFailures(ret.val.errors) = {}

C12_Witness ==
    /\ IsGateCall
    /\ call.args[1] = "01_create_benchmark_dbs.py"
    /\ createEngineFails
    /\ HasEvent(ret.trace, Ev("create_engine_failed", "root"))
    /\ ret.exc = "none"
    /\ ~ret.val.met
    /\ ret.val.errors = << GateFailure >>

PositionIn(seq, x) == CHOOSE i \in 1..Len(seq) : seq[i] = x

\* C13: the errors list follows the order of evaluation: for the profiling
\* and ERD stages the entries name the missing databases in the order legacy
\* databases, then benchmark databases, each in configured order; every
\* missing database has its entry and no entry comes twice.
C13_ErrorsInEvaluationOrder ==
    (IsGateCall /\ call.args[1] \in {"02_run_profiling_pipeline.py", "03_generate_erds.py"}
                /\ ~createEngineFails) =>
        LET errors == ret.val.errors
        IN  /\ \A i \in 1..Len(errors) :
                  /\ errors[i].msg = "Database does not exist"
                  /\ \E k \in 1..Len(ConfiguredDbs) : ConfiguredDbs[k] = errors[i].about
            /\ \A i, j \in 1..Len(errors) :
                  i < j => PositionIn(ConfiguredDbs, errors[i].about)
                              < PositionIn(ConfiguredDbs, errors[j].about)
            /\ \A k \in 1..Len(ConfiguredDbs) :
                  ~DatabaseAccessible(ConfiguredDbs[k]) =>
                      \E i \in 1..Len(errors) : errors[i].about = ConfiguredDbs[k]

C13_Witness ==
    /\ IsGateCall
    /\ call.args[1] = "02_run_profiling_pipeline.py"
    /\ ~createEngineFails
    /\ rootFail = "none"
    /\ cfg.legacy_dbs = << "tmp_df8", "tmp_df9" >>
    /\ catalog = {"tmp_df9"}
    /\ ret.val.errors = << Err("Database does not exist", "tmp_df8"),
                           Err("Database does not exist", "tmp_bench") >>

----------------------------------------------------------------------------
(* Benchmark harness *)

IsHarnessCall == call.op = "run_performance_benchmarks"

\* the file was read and the connection opened: the loop over the chunks ran
LoopRan == IsHarnessCall /\ harness.file = "ok" /\ harness.connect

Delimiters == {i \in 1..Len(harness.script) : harness.script[i] \in {"end", "sql_end"}}

Chunks == query_chunks(harness.script)

WhitespaceOnly(chunk) == \A i \in 1..Len(chunk) : chunk[i] = "blank"

HasSql(chunk) == \E i \in 1..Len(chunk) : chunk[i] \in {"sql", "tpl"}

CommentOnly(chunk) == ~WhitespaceOnly(chunk) /\ ~HasSql(chunk)

WhitespaceOnlyChunks == {i \in 1..Len(Chunks) : WhitespaceOnly(Chunks[i])}

CommentOnlyChunks == {i \in 1..Len(Chunks) : CommentOnly(Chunks[i])}

ExecutableChunks == {i \in 1..Len(Chunks) : HasSql(Chunks[i])}

InFileOrder(rows) ==
    \A j, k \in 1..Len(rows) : j < k => rows[j].chunk < rows[k].chunk

OnePerExecutableChunk(rows) ==
    /\ InFileOrder(rows)
    /\ {rows[k].chunk : k \in 1..Len(rows)} = ExecutableChunks

FirstTag(chunk, tags, i) ==
    /\ i \in 1..Len(chunk)
    /\ chunk[i] \in tags
    /\ \A j \in 1..(i - 1) : chunk[j] \notin tags

NoTag(chunk, tags) == \A i \in 1..Len(chunk) : chunk[i] \notin tags

\* C15: in every result the category is "Unknown" when the chunk has no
\* category tag and the query id is "Unknown" when it has no query-id tag;
\* with several tags the first one of the chunk gives the value; neither is
\* ever null.
C15_TagsOrUnknown ==
    (LoopRan /\ ret.exc = "none") =>
        \A k \in 1..Len(ret.val) :
            LET chunk == Chunks[ret.val[k].chunk]
                name == ret.val[k].query_name
            IN  /\ name.category \in {"Unknown", "Baseline", "Join"}
                /\ name.query_id \in {"Unknown", "1", "2.1"}
                /\ NoTag(chunk, CategoryTags) => name.category = "Unknown"
                /\ NoTag(chunk, QueryIdTags) => name.query_id = "Unknown"
                /\ \A i \in 1..Len(chunk) :
                      /\ FirstTag(chunk, CategoryTags, i) =>
                            name.category = (IF chunk[i] = "cat_a" THEN "Baseline" ELSE "Join")
                      /\ FirstTag(chunk, QueryIdTags, i) =>
                            name.query_id = (IF chunk[i] = "qid_1" THEN "1" ELSE "2.1")

C15_Witness ==
    /\ LoopRan
    /\ harness.script = << "cat_b", "cat_a", "sql_end", "sql" >>
    /\ ret.exc = "none"
    /\ Len(ret.val) = 2
    /\ ret.val[1].query_name = [category |-> "Join", query_id |-> "Unknown"]
    /\ ret.val[2].query_name = [category |-> "Unknown", query_id |-> "Unknown"]

TransactionSteps ==
    {"begin", "begin_failed", "execute", "execute_failed", "fetch_failed",
     "commit", "commit_failed", "rollback"}

StepsOf(i) ==
    SelectSeq(ret.trace, LAMBDA e : e.on = i /\ e.ev \in TransactionSteps)

\* C16: a chunk that holds only comments and white space is skipped as a
\* whole: no transaction is begun for it, nothing is executed, and no result
\* row stands for it.
C16_CommentOnlySkipped ==
    LoopRan =>
        \A i \in CommentOnlyChunks :
            /\ StepsOf(i) = << >>
            /\ ret.exc = "none" => \A k \in 1..Len(ret.val) : ret.val[k].chunk # i

C16_Witness ==
    /\ LoopRan
    /\ harness.script = ThreeChunks
    /\ CommentOnlyChunks = {2}
    /\ HasEvent(ret.trace, Step("log_warning", 2))
    /\ StepsOf(2) = << >>
    /\ StepsOf(3) # << >>
    /\ ret.exc = "none"
    /\ Len(ret.val) = 2

Closings(steps) == SelectSeq(steps, LAMBDA e : e.ev \in {"commit", "rollback"})

Failures(steps) ==
    SelectSeq(steps, LAMBDA e : e.ev \in {"execute_failed", "fetch_failed", "commit_failed"})

\* the steps of the run, whatever the chunk
AllSteps == SelectSeq(ret.trace, LAMBDA e : e.ev \in TransactionSteps)

QueryFails(i) == harness.outcomes[i].at \in {"execute", "fetch", "commit"}

Statuses(rows) == [k \in 1..Len(rows) |-> rows[k].status]

\* C17: every executed query has its own transaction: begun before the
\* query, committed when the query succeeds, rolled back when it raises,
\* with exactly one of commit and rollback, and closed before the next one
\* begins; so a batch of two queries of which the first fails and the second
\* is valid returns the statuses Failed, Success.
C17_OwnTransaction ==
    LoopRan =>
        /\ \A i \in 1..Len(Chunks) :
              LET steps == StepsOf(i)
              IN  (steps # << >> /\ steps[1].ev # "begin_failed") =>
                      /\ steps[1].ev = "begin"
                      /\ Len(Closings(steps)) = 1
                      /\ steps[Len(steps)].ev \in {"commit", "rollback"}
                      /\ steps[Len(steps)].ev = "commit" <=> Failures(steps) = << >>
        /\ \A p, q \in 1..Len(AllSteps) :
              (p < q /\ AllSteps[p].ev = "begin" /\ AllSteps[q].ev \in {"begin", "begin_failed"}) =>
                  \E r \in (p + 1)..(q - 1) :
                      /\ AllSteps[r].ev \in {"commit", "rollback"}
                      /\ AllSteps[r].on = AllSteps[p].on
        /\ \A a, b \in ExecutableChunks :
              (a < b /\ ExecutableChunks = {a, b}
                     /\ QueryFails(a) /\ harness.outcomes[b].at = "none") =>
                  /\ ret.exc = "none"
                  /\ Statuses(ret.val) = << "Failed", "Success" >>

\* C18: a query that raises never ends the batch: whatever the text of the
\* exception, the empty text included, the query is recorded as Failed, the
\* following chunks are processed, and the run returns one result for every
\* executed chunk in the order of the file.
C18_FailureNeverAborts ==
    (LoopRan /\ \A i \in ExecutableChunks : harness.outcomes[i].at # "begin") =>
        /\ ret.exc = "none"
        /\ OnePerExecutableChunk(ret.val)
        /\ \A k \in 1..Len(ret.val) :
              ret.val[k].status = "Failed" <=> QueryFails(ret.val[k].chunk)

\* C19: every result row has the status Success or Failed, never Pending; a
\* Failed row has a null latency and a non-empty error message, a Success row
\* a latency of zero or more and the empty error message, wherever the query
\* failed: in execute, while fetching the rows or in commit.
C19_RowInvariant ==
    (LoopRan /\ ret.exc = "none") =>
        \A k \in 1..Len(ret.val) :
            LET row == ret.val[k]
            IN  /\ row.status \in {"Success", "Failed"}
                /\ row.status = "Failed" =>
                      /\ row.latency_ms = << >>
                      /\ row.error_message # << >>
                /\ row.status = "Success" =>
                      /\ Len(row.latency_ms) = 1
                      /\ row.latency_ms[1] >= 0
                      /\ row.error_message = << >>

----------------------------------------------------------------------------
(* Comparative statistics *)

IsCompareCall == call.op = "calculate_comparative_performance_metrics"

\* latencies of the Success rows of a category in the benchmark-flagged
\* databases of the pool
BenchmarkLatencies(category) ==
    UNION { { pool[d].rows[k].latency_ms[1] :
                k \in {j \in 1..Len(pool[d].rows) :
                         /\ pool[d].rows[j].status = "Success"
                         /\ pool[d].rows[j].query_name.category = category
                         /\ pool[d].rows[j].latency_ms # << >>} } :
            d \in {e \in 1..Len(pool) : pool[e].is_benchmark} }

Abs(n) == IF n < 0 THEN -n ELSE n

\* h is n / d rounded to the nearest whole number
Nearest(h, n, d) == 2 * Abs(n - h * d) <= d

\* C21: in the returned table every row of a benchmark-flagged database has
\* performance_improvement_factor 0.0, also when its latency lies above the
\* baseline set by another benchmark database; the rows of the other
\* databases keep the computed value, which is not 0.0 unless their latency
\* equals the baseline.
C21_BenchmarkRowsZero ==
    (IsCompareCall /\ ret.val.kind = "compared") =>
        \A k \in 1..Len(ret.val.rows) :
            LET row == ret.val.rows[k]
            IN  /\ row.is_benchmark => row.performance_improvement_factor = Num(0)
                /\ (~row.is_benchmark /\ row.performance_improvement_factor = Num(0)) =>
                      row.latency_ms = row.baseline_latency_ms

C21_Witness ==
    /\ IsCompareCall
    /\ ret.val.kind = "compared"
    /\ \E j, k \in 1..Len(ret.val.rows) :
          /\ ret.val.rows[j].is_benchmark
          /\ ret.val.rows[j].latency_ms = Num(3)
          /\ ret.val.rows[j].baseline_latency_ms = Num(1)
          /\ ret.val.rows[j].performance_improvement_factor = Num(0)
          /\ ~ret.val.rows[k].is_benchmark
          /\ ret.val.rows[k].category = ret.val.rows[j].category
          /\ ret.val.rows[k].performance_improvement_factor # Num(0)

\* C22: for every returned row of a database that is not benchmark-flagged,
\* schema_efficiency_factor is latency / baseline to two decimals and
\* performance_improvement_factor is (latency - baseline) / latency * 100 to
\* two decimals, the row's own latency being the denominator (a zero
\* denominator gives the float infinity or NaN, a missing baseline NaN); a
\* baseline of 2 and a latency of 3, the ratio of 100 to 150, give 1.5 and
\* 33.33.
C22_FactorFormulas ==
    (IsCompareCall /\ ret.val.kind = "compared") =>
        \A k \in 1..Len(ret.val.rows) :
            LET row == ret.val.rows[k]
                l == row.latency_ms.val
                b == row.baseline_latency_ms.val
                eff == row.schema_efficiency_factor
                imp == row.performance_improvement_factor
            IN  (~row.is_benchmark /\ row.latency_ms.kind = "num") =>
                    IF row.baseline_latency_ms.kind # "num"
                    THEN eff = NaN /\ imp = NaN
                    ELSE /\ IF b # 0
                            THEN eff.kind = "num" /\ Nearest(eff.val, 100 * l, b)
                            ELSE eff = (IF l = 0 THEN NaN ELSE Inf(1))
                         /\ IF l # 0
                            THEN imp.kind = "num" /\ Nearest(imp.val, 10000 * (l - b), l)
                            ELSE imp = (IF b = 0 THEN NaN ELSE Inf(-1))
                         /\ (l = 3 /\ b = 2) => (eff = Num(150) /\ imp = Num(3333))

C22_Witness ==
    /\ IsCompareCall
    /\ ret.val.kind = "compared"
    /\ \E k \in 1..Len(ret.val.rows) :
          /\ ~ret.val.rows[k].is_benchmark
          /\ ret.val.rows[k].latency_ms = Num(3)
          /\ ret.val.rows[k].baseline_latency_ms = Num(2)
          /\ ret.val.rows[k].schema_efficiency_factor = Num(150)
          /\ ret.val.rows[k].performance_improvement_factor = Num(3333)

\* the Success rows of the pool, as pairs of database number and row number
PoolSuccess ==
    { dk \in (1..Len(pool)) \X (1..MaxPoolRows) :
        /\ dk[2] <= Len(pool[dk[1]].rows)
        /\ pool[dk[1]].rows[dk[2]].status = "Success" }

\* C23: when the pool has Success rows and none of them belongs to a
\* benchmark-flagged database, the returned table is empty.
C23_NoBenchmarkGivesEmpty ==
    (IsCompareCall /\ PoolSuccess # {}
                   /\ \A dk \in PoolSuccess : ~pool[dk[1]].is_benchmark) =>
        /\ ret.exc = "none"
        /\ ret.val.rows = << >>

\* C24: a pool without performance data, or with performance rows none of
\* which has the status Success, gives the empty table and no exception; a
\* returned table that is not empty holds rows with the status Success only.
C24_EmptyPool ==
    IsCompareCall =>
        /\ ret.exc = "none"
        /\ PoolSuccess = {} => ret.val = Table("empty", << >>)
        /\ \A k \in 1..Len(ret.val.rows) : ret.val.rows[k].status = "Success"

C24_Witness ==
    /\ IsCompareCall
    /\ PoolSuccess = {}
    /\ \E d \in 1..Len(pool) :
          /\ pool[d].is_benchmark
          /\ Len(pool[d].rows) >= 1
          /\ pool[d].rows[1].status = "Failed"
          /\ pool[d].rows[1].latency_ms = << 0 >>
    /\ \E d \in 1..Len(pool) :
          /\ pool[d].rows = << >>
          /\ ~pool[d].has_performance_benchmarks
    /\ ret.exc = "none"
    /\ ret.val = Table("empty", << >>)

----------------------------------------------------------------------------
(* Release of engines and connections *)

\* every engine made in the trace is disposed later in it, and every
\* connection opened is closed later
Released(trace) ==
    \A p \in 1..Len(trace) :
        /\ trace[p].ev = "create_engine" =>
              \E q \in (p + 1)..Len(trace) :
                  trace[q].ev = "dispose" /\ trace[q].on = trace[p].on
        /\ trace[p].ev = "connect" =>
              \E q \in (p + 1)..Len(trace) :
                  trace[q].ev = "close" /\ trace[q].on = trace[p].on

\* C25: every engine and connection that a verification or prerequisite
\* operation creates is released before the operation returns, on every exit
\* path: normal return, negative result and caught exception.
C25_EnginesReleased ==
    call.op \in {"verify_database_exists", "check_pipeline_prerequisites"} =>
        Released(ret.trace)

----------------------------------------------------------------------------
(* Profiling pipeline *)

IsProfilingCall == call.op = "run_profiling_pipeline"

\* positions of the trace where the connection to a database is tried
Attempts(db_name) ==
    {p \in 1..Len(ret.trace) :
        /\ ret.trace[p].on = db_name
        /\ ret.trace[p].ev \in {"connect", "connect_failed", "create_engine_failed"}}

\* positions where a metric of a database is gathered
Runs(db_name, metric) ==
    {p \in 1..Len(ret.trace) :
        /\ ret.trace[p].on = db_name
        /\ ret.trace[p].metric = metric
        /\ ret.trace[p].ev \in {"run", "run_failed"}}

Applicable(db_name, metric) ==
    /\ metric = "interop_metrics" =>
          db_name \in {cfg.legacy_dbs[i] : i \in 1..Len(cfg.legacy_dbs)}
    /\ metric = "performance_benchmarks" => profiling.query_file[db_name] = "present"

Logged(p) ==
    /\ p < Len(ret.trace)
    /\ ret.trace[p + 1].ev = "log_error"
    /\ ret.trace[p + 1].on = ret.trace[p].on
    /\ ret.trace[p + 1].metric = ret.trace[p].metric

\* C26: the profiling run never stops early: the connection to every
\* configured database is tried once, in configured order; a failed
\* connection is logged and only skips that database; in a connected
\* database every applicable metric is gathered once, in the order of the
\* metrics, whatever raised before it, and every exception of a gathering
\* function or of saving its result is logged.
C26_FailuresDoNotStopTheRun ==
    IsProfilingCall =>
        /\ ret.exc = "none"
        /\ \A i \in 1..Len(ConfiguredDbs) : Cardinality(Attempts(ConfiguredDbs[i])) = 1
        /\ \A i, j \in 1..Len(ConfiguredDbs) :
              i < j => \A p \in Attempts(ConfiguredDbs[i]), q \in Attempts(ConfiguredDbs[j]) :
                          p < q
        /\ \A p \in 1..Len(ret.trace) :
              ret.trace[p].ev \in {"connect_failed", "create_engine_failed",
                                   "run_failed", "save_failed"} => Logged(p)
        /\ \A i \in 1..Len(ConfiguredDbs) :
              LET db_name == ConfiguredDbs[i]
                  connected == \E p \in Attempts(db_name) : ret.trace[p].ev = "connect"
              IN  /\ connected <=> (db_name \in connectable /\ ~createEngineFails)
                  /\ \A m \in 1..Len(Metrics) :
                        Cardinality(Runs(db_name, Metrics[m])) =
                            (IF connected /\ Applicable(db_name, Metrics[m]) THEN 1 ELSE 0)
                  /\ \A m, n \in 1..Len(Metrics) :
                        m < n => \A p \in Runs(db_name, Metrics[m]),
                                    q \in Runs(db_name, Metrics[n]) : p < q

C26_Witness ==
    /\ IsProfilingCall
    /\ connectable = {"tmp_df9", "tmp_bench"}
    /\ harness = AbortedRun
    /\ profiling.bad = {[db |-> "tmp_df9", metric |-> "basic_metrics", at |-> "run"],
                        [db |-> "tmp_df9", metric |-> "column_profiles", at |-> "save"]}
    /\ ret.exc = "none"
    /\ HasEvent(ret.trace, Did("connect_failed", "tmp_df8", "n/a"))
    /\ HasEvent(ret.trace, Did("run_failed", "tmp_df9", "basic_metrics"))
    /\ HasEvent(ret.trace, Did("run", "tmp_df9", "schema_counts"))
    /\ HasEvent(ret.trace, Did("save_failed", "tmp_df9", "column_profiles"))
    /\ HasEvent(ret.trace, Did("run_failed", "tmp_df9", "performance_benchmarks"))
    /\ HasEvent(ret.trace, Did("connect", "tmp_bench", "n/a"))
    /\ HasEvent(ret.trace, Did("run_failed", "tmp_bench", "performance_benchmarks"))

----------------------------------------------------------------------------
(* Pipeline state *)

IsStateCall == call.op = "verify_full_pipeline_state"

StageNames ==
    << "00_setup_databases", "01_create_benchmark_dbs", "02_run_profiling_pipeline",
       "03_generate_erds", "04_run_comparison" >>

\* number of stages whose evaluation is over when the first exception is
\* raised: none when the root engine cannot be made, the database stages
\* when the metrics directory cannot be read, and so on
Evaluated ==
    IF createEngineFails THEN 0
    ELSE IF site.dirs["metrics"].fail THEN 2
    ELSE IF site.dirs["erds"].fail THEN 3
    ELSE IF site.dirs["reports"].fail THEN 4
    ELSE 5

ExistenceCheckPasses(db) == rootFail = "none" /\ db \in catalog /\ db \in connectable

PopulationCheckPasses(db) ==
    LET schema == site.schemas[db]
    IN  /\ schema.fail = "none"
        /\ schema.name = Lower(db)
        /\ Len(schema.tables) >= 5
        /\ \A i \in 1..Len(schema.tables) : schema.tables[i].readable
        /\ \E i \in 1..Len(schema.tables) : schema.tables[i].rows > 0

ReadinessCheckPasses(db) ==
    LET b == site.benches[db]
    IN  b.fail = "none" /\ b.table_exists /\ b.row_count > 0

\* C27: verify_full_pipeline_state never raises; it returns one boolean per
\* stage, in order, for exactly the stages evaluated before the first
\* exception (all five without one); the stage of the legacy databases is
\* true only if each of them passes the existence and the population check,
\* the stage of the benchmark databases only if each passes the existence
\* and the readiness check
C27_PartialStateNeverRaises ==
    IsStateCall =>
        /\ ret.exc = "none"
        /\ Len(ret.val) = Evaluated
        /\ \A i \in 1..Len(ret.val) :
              /\ ret.val[i].stage = StageNames[i]
              /\ ret.val[i].ready \in BOOLEAN
        /\ (Len(ret.val) >= 1 /\ ret.val[1].ready) =>
              \A i \in 1..Len(cfg.legacy_dbs) :
                 /\ ExistenceCheckPasses(cfg.legacy_dbs[i])
                 /\ PopulationCheckPasses(cfg.legacy_dbs[i])
        /\ (Len(ret.val) >= 2 /\ ret.val[2].ready) =>
              \A i \in 1..Len(cfg.benchmark_dbs) :
                 /\ ExistenceCheckPasses(cfg.benchmark_dbs[i])
                 /\ ReadinessCheckPasses(cfg.benchmark_dbs[i])

\* the ERD directory cannot be read: three stages are reported, the two
\* database stages as complete, profiling as incomplete
C27_Witness ==
    /\ IsStateCall
    /\ site.dirs["erds"].fail
    /\ Len(ret.val) = 3
    /\ ret.val[1].ready
    /\ ret.val[2].ready
    /\ ~ret.val[3].ready

----------------------------------------------------------------------------
(* Setup scripts *)

IsSetupCall == call.op = "00_setup_databases"

IsCreateCall == call.op = "01_create_benchmark_dbs"

MainOps == {"00_setup_databases", "01_create_benchmark_dbs"}

\* the databases a script goes through
Configured(op) == IF op = "00_setup_databases" THEN cfg.legacy_dbs ELSE cfg.benchmark_dbs

MutatingSteps ==
    {"drop_database", "create_database", "populate_database", "extract_transform_data",
     "write_to_database"}

VerificationSteps == {"verify_database_setup", "verify_benchmark_database"}

\* positions of the calls of the given steps for a database
Calls(trace, steps, db) ==
    {i \in 1..Len(trace) : trace[i].ev \in steps /\ trace[i].on = db}

\* the verification a script applies to one of its databases
Verifies(op, db) ==
    IF op = "00_setup_databases" THEN PopulationCheckPasses(db) ELSE ReadinessCheckPasses(db)

\* the step leaves the database as it was
Untouched(db) ==
    /\ (db \in catalog') = (db \in catalog)
    /\ (db \in connectable') = (db \in connectable)
    /\ db \in DOMAIN site.schemas => site'.schemas[db] = site.schemas[db]
    /\ db \in DOMAIN site.benches => site'.benches[db] = site.benches[db]

C28_Step ==
    call'.op \in MainOps =>
        LET op == call'.op
            verify_only == call'.args[1]
            force_recreate == call'.args[2]
            dbs == Configured(op)
        IN  \A i \in 1..Len(dbs) :
               LET db == dbs[i]
                   exists == ExistenceCheckPasses(db)
                   verified == Verifies(op, db)
               IN  /\ Calls(ret'.trace, MutatingSteps, db) # {} =>
                         /\ ~verify_only
                         /\ ~exists \/ ~verified \/ force_recreate
                   /\ (exists /\ verified /\ ~force_recreate) =>
                         /\ Calls(ret'.trace, MutatingSteps, db) = {}
                         /\ Untouched(db)
                   /\ Calls(ret'.trace, {"drop_database"}, db) # {} =>
                         force_recreate /\ exists

\* C28: in a run of either script a drop, create, populate or ETL step is
\* called for a database only if the run is not verify-only and the database
\* is missing, fails verification or is recreated by force; a database that
\* exists and verifies is left untouched without --force-recreate; a drop is
\* called only with --force-recreate on a database that exists
C28_MutationOnlyWhenNeeded == [][C28_Step]_vars

\* a plain run of 00_setup_databases.py populates tmp_df8 and skips the
\* verified tmp_df9
C28_Witness ==
    /\ IsSetupCall
    /\ call.args = << FALSE, FALSE >>
    /\ Calls(ret.trace, {"populate_database"}, "tmp_df8") # {}
    /\ Calls(ret.trace, VerificationSteps, "tmp_df9") # {}
    /\ Calls(ret.trace, MutatingSteps, "tmp_df9") = {}
    /\ ret.val = 0

C29_Step ==
    (call'.op \in MainOps /\ call'.args[1]) =>
        LET op == call'.op
            dbs == Configured(op)
            all_verified == \E i \in 1..Len(ret'.trace) :
                               ret'.trace[i] = Ev("log", "all_verified")
        IN  /\ \A i \in 1..Len(dbs) :
                  ExistenceCheckPasses(dbs[i]) =>
                     Cardinality(Calls(ret'.trace, VerificationSteps, dbs[i])) = 1
            /\ (ret'.val = 1) <=>
                  \E i \in 1..Len(dbs) :
                     ~ExistenceCheckPasses(dbs[i]) \/ ~Verifies(op, dbs[i])
            /\ all_verified =>
                  \A i \in 1..Len(dbs) : Calls(ret'.trace, VerificationSteps, dbs[i]) # {}

\* C29: a verify-only run of either script, with or without
\* --force-recreate, verifies every configured database that exists exactly
\* once, exits with status 1 exactly when a configured database is missing
\* or fails verification, and reports all databases verified only after
\* verifying each
C29_VerifyOnlyVerifiesAll == [][C29_Step]_vars

\* the prerequisites of 01_create_benchmark_dbs.py: the source database
\* exists and its schema holds the source tables, all counted, some with rows
PrerequisitesMet ==
    LET source == site.schemas[cfg.source_db]
    IN  /\ ExistenceCheckPasses(cfg.source_db)
        /\ source.fail = "none"
        /\ source.name = Lower(cfg.source_db)
        /\ Len(source.tables) >= 15
        /\ \A i \in 1..Len(source.tables) : source.tables[i].readable
        /\ \E i \in 1..Len(source.tables) : source.tables[i].rows > 0

C30_Step ==
    (call'.op = "01_create_benchmark_dbs" /\ ~call'.args[1]) =>
        LET t == ret'.trace
            gates == {i \in 1..Len(t) : t[i].ev = "check_pipeline_prerequisites"}
            examined == {i \in 1..Len(t) :
                            t[i].ev \in MutatingSteps \cup VerificationSteps
                                        \cup {"verify_database_exists"}}
        IN  /\ ~createEngineFails => Cardinality(gates) = 1
            /\ Cardinality(gates) <= 1
            /\ \A i \in gates, j \in examined : i < j
            /\ ~PrerequisitesMet =>
                  /\ ret'.val = 1
                  /\ examined = {}
                  /\ catalog' = catalog
                  /\ connectable' = connectable
                  /\ site' = site

\* C30: a run of 01_create_benchmark_dbs.py that is not verify-only and has
\* its root engine checks the prerequisites once, before it examines a
\* benchmark database; with unmet prerequisites it exits with status 1 and
\* examines, drops, creates and writes nothing
C30_PrerequisitesFirst == [][C30_Step]_vars

\* the source database is one table short: the run stops after the check
C30_Witness ==
    /\ IsCreateCall
    /\ call.args = << FALSE, TRUE >>
    /\ "tmp_df9" \in connectable
    /\ Len(site.schemas["tmp_df9"].tables) = MinLegacyTables
    /\ BenchmarkNames \subseteq catalog
    /\ ret.val = 1
    /\ ret.trace = << Ev("check_pipeline_prerequisites", "01_create_benchmark_dbs.py"),
                      Ev("log", "prerequisites_not_met"), Ev("dispose", "root") >>

====
